---- MODULE Spec2Model ----
(***************************************************************************)
(* Searchable symmetric encryption service: client engine, storage server  *)
(* and index backends (JSON dict and SQLite table).                        *)
(*                                                                         *)
(* Strings are sequences of one-character strings.  An HMAC-SHA256 digest  *)
(* is the pair (key, message): the ideal, collision-free view of the PRF.  *)
(***************************************************************************)
EXTENDS Integers, Sequences, FiniteSets, TLC

VARIABLES
    documents,      \* SSEServer._documents of the vault: doc_id -> blob
    docFiles,       \* files under <storage_dir>/documents: doc_id -> blob
    backendKind,    \* "json" | "sqlite": SSEServer(use_sqlite_index)
    jsonIndex,      \* JsonIndexBackend._index: ordered dict, a sequence of [k, v]
    jsonFile,       \* contents of index.json as last saved
    sqlRows,        \* committed rows of index_entries: a set, UNIQUE(key_hex, doc_id)
    knownDocIds,    \* SSEClient._known_doc_ids
    keywordCounter, \* the caller's keyword_counter dict: keyword -> int
    last,           \* the last call: its name, arguments, result and pre-state
    hist,           \* history of the calls made so far
    conc,           \* threads, locks and open transactions of concurrent requests
    vault,          \* the VaultManagers, the clock and the holders of keys
    disk            \* the index files of the storage directory and the save under way

serverVars == <<documents, docFiles, backendKind, jsonIndex, jsonFile, sqlRows>>
clientVars == <<knownDocIds, keywordCounter>>
vars == <<documents, docFiles, backendKind, jsonIndex, jsonFile, sqlRows,
          knownDocIds, keywordCounter, last, hist, conc, vault, disk>>

(***************************************************************************)
(* Bounds of the model.                                                    *)
(***************************************************************************)
NumDocs == 2
NumTexts == 3
NumQueries == 4
NumIVs == 1
MaxBatch == 2
MaxCtr == 2

Min(a, b) == IF a < b THEN a ELSE b

DocIdPool == <<"d1", "d2", "d3", "d4">>
DocIds == {DocIdPool[i] : i \in 1..Min(NumDocs, Len(DocIdPool))}

TextPool ==
    << <<"A", " ", "b">>,
       <<"a", " ", "A">>,
       <<"a", "_", "b">>,
       <<"b", "_", " ", "B">>,
       <<"b", "a">> >>
Texts == {TextPool[i] : i \in 1..Min(NumTexts, Len(TextPool))}

QueryPool ==
    << <<"a">>,
       <<" ", "A", " ">>,
       <<"B">>,
       <<"a", " ", "b">>,
       <<>>,
       <<"b", "a">> >>
Queries == {QueryPool[i] : i \in 1..Min(NumQueries, Len(QueryPool))}

IVs == 1..NumIVs

Range(s) == {s[i] : i \in 1..Len(s)}

(***************************************************************************)
(* Python str and list helpers.                                            *)
(***************************************************************************)
LowerChar(c) ==
    CASE c = "A" -> "a"
      [] c = "B" -> "b"
      [] OTHER -> c

\* str.lower()
Lower(s) == [i \in 1..Len(s) |-> LowerChar(s[i])]

IsSpace(c) == c = " "

RECURSIVE LStrip(_)
LStrip(s) ==
    IF s # <<>> /\ IsSpace(Head(s)) THEN LStrip(Tail(s)) ELSE s

RECURSIVE RStrip(_)
RStrip(s) ==
    IF s # <<>> /\ IsSpace(s[Len(s)]) THEN RStrip(SubSeq(s, 1, Len(s) - 1)) ELSE s

\* str.strip()
Strip(s) == RStrip(LStrip(s))

\* code point of a character; ASCII, so also its UTF-8 byte
Ord(c) ==
    CASE c = "a" -> 97
      [] c = "b" -> 98
      [] c = "A" -> 65
      [] c = "B" -> 66
      [] c = " " -> 32
      [] c = "_" -> 95

\* str.encode("utf-8")
EncodeUtf8(s) == [i \in 1..Len(s) |-> Ord(s[i])]

\* list(dict.fromkeys(s)): drop repeats, keep the first occurrence of each
RECURSIVE DedupeFrom(_, _)
DedupeFrom(s, out) ==
    IF s = <<>> THEN out
    ELSE DedupeFrom(Tail(s), IF Head(s) \in Range(out) THEN out ELSE Append(out, Head(s)))

Dedupe(s) == DedupeFrom(s, <<>>)

NoDup(s) == \A i, j \in 1..Len(s) : i # j => s[i] # s[j]

(***************************************************************************)
(* An insertion-ordered dict is a sequence of entries [k, v], keys distinct.*)
(***************************************************************************)
DictKeys(d) == {d[i].k : i \in 1..Len(d)}

DictGet(d, key, default) ==
    IF key \in DictKeys(d)
    THEN d[CHOOSE i \in 1..Len(d) : d[i].k = key].v
    ELSE default

\* d[key] = val: a present key keeps its position, a new key goes last
DictPut(d, key, val) ==
    IF key \in DictKeys(d)
    THEN [i \in 1..Len(d) |-> IF d[i].k = key THEN [k |-> key, v |-> val] ELSE d[i]]
    ELSE Append(d, [k |-> key, v |-> val])

DictDel(d, key) == SelectSeq(d, LAMBDA e : e.k # key)

\* the (token_hex, doc_id) pairs of a sequence of entries
PairsOf(entries) ==
    UNION {{<<entries[i].k, d>> : d \in Range(entries[i].v)} : i \in 1..Len(entries)}

(***************************************************************************)
(* Keyword extraction: re.findall(r"\b[a-z0-9]+\b", text.lower()).  \b is  *)
(* a boundary between a \w character and a non-\w one, and "_" is \w, so a *)
(* match is a maximal run of \w characters that holds only [a-z0-9].       *)
(***************************************************************************)
IsAlnumLower(c) == c \in {"a", "b"}

IsWordChar(c) == c \in {"a", "b", "A", "B", "_"}

FlushRun(run, out) ==
    IF run # <<>> /\ (\A i \in 1..Len(run) : IsAlnumLower(run[i]))
    THEN Append(out, run)
    ELSE out

RECURSIVE FindAllWords(_, _, _)
FindAllWords(s, run, out) ==
    IF s = <<>> THEN FlushRun(run, out)
    ELSE IF IsWordChar(Head(s))
         THEN FindAllWords(Tail(s), Append(run, Head(s)), out)
         ELSE FindAllWords(Tail(s), <<>>, FlushRun(run, out))

\* mutant: a word that occurs twice is listed twice
ExtractKeywordsNoDedupe(text) == FindAllWords(Lower(text), <<>>, <<>>)

\* _extract_keywords
ExtractKeywords(text) == Dedupe(FindAllWords(Lower(text), <<>>, <<>>))

(***************************************************************************)
(* Trapdoors and forward-private index keys.                               *)
(***************************************************************************)
HMAC(key, msg) == [key |-> key, msg |-> msg]

\* bytes.hex() of a digest, and bytes.fromhex() back
Hex(digest) == [hex |-> digest]
FromHex(h) == h.hex

\* derive_key_bundle(master_key).k_search
K_search == "k_search"

\* _fwd_key: HMAC(k_search, LABEL_FWD), a key of its own
FwdKey == "HMAC(k_search, sse.v1.forward)"

\* build_trapdoor
BuildTrapdoor(keyword) == HMAC(K_search, EncodeUtf8(Lower(Strip(keyword))))

\* encrypt_keyword_for_index
EncryptKeywordForIndex(keyword) == BuildTrapdoor(keyword)

\* n >> (8 * k)
RECURSIVE ShiftRightBytes(_, _)
ShiftRightBytes(n, k) == IF k = 0 THEN n ELSE ShiftRightBytes(n \div 256, k - 1)

\* int.to_bytes(8, "big")
ToBytes8(n) == [i \in 1..8 |-> ShiftRightBytes(n, 8 - i) % 256]

\* build_forward_secure_index_key
BuildForwardSecureIndexKey(keyword, counter) ==
    HMAC(FwdKey, EncodeUtf8(Lower(Strip(keyword))) \o ToBytes8(counter))

\* mutant: range(counter_max + 1)
BuildForwardSecureSearchTokensOver(keyword, counter_max) ==
    [c \in 1..(counter_max + 1) |-> BuildForwardSecureIndexKey(keyword, c - 1)]

\* build_forward_secure_search_tokens: one token per c in range(counter_max)
BuildForwardSecureSearchTokens(keyword, counter_max) ==
    [c \in 1..counter_max |-> BuildForwardSecureIndexKey(keyword, c - 1)]

\* encrypt_document: iv || tag || ciphertext under k_enc, with a fresh random iv
EncryptDocument(plaintext, iv) == [iv |-> iv, ct |-> plaintext]

(***************************************************************************)
(* JsonIndexBackend: _index is a dict token_hex -> list of doc_ids.        *)
(***************************************************************************)
\* mutant: extend without the dict.fromkeys pass
JsonMergeNoDedupe(index, key_hex, doc_ids) ==
    DictPut(index, key_hex, DictGet(index, key_hex, <<>>) \o doc_ids)

\* setdefault(key_hex, []).extend(doc_ids); _index[key_hex] = list(dict.fromkeys(...))
JsonMerge(index, key_hex, doc_ids) ==
    DictPut(index, key_hex, Dedupe(DictGet(index, key_hex, <<>>) \o doc_ids))

\* JsonIndexBackend.add
JsonAdd(index, key_hex, doc_ids) == JsonMerge(index, key_hex, doc_ids)

\* JsonIndexBackend.add_batch: the loop over index.items()
RECURSIVE JsonAddBatch(_, _)
JsonAddBatch(index, batch) ==
    IF batch = <<>> THEN index
    ELSE JsonAddBatch(JsonMerge(index, Head(batch).k, Head(batch).v), Tail(batch))

\* JsonIndexBackend.iter_entries
JsonIterEntries(index) == index

\* mutant: a token whose list becomes empty is kept
JsonRemoveDocIdKeepEmpty(index, doc_id) ==
    [i \in 1..Len(index) |->
        [k |-> index[i].k, v |-> SelectSeq(index[i].v, LAMBDA d : d # doc_id)]]

\* JsonIndexBackend.remove_doc_id
JsonRemoveDocId(index, doc_id) ==
    LET filtered == [i \in 1..Len(index) |->
                        [k |-> index[i].k,
                         v |-> SelectSeq(index[i].v, LAMBDA d : d # doc_id)]]
        to_del == {filtered[i].k : i \in {j \in 1..Len(index) : filtered[j].v = <<>>}}
    IN SelectSeq(filtered, LAMBDA e : e.k \notin to_del)

(***************************************************************************)
(* SqliteIndexBackend: table index_entries(key_hex, doc_id) with           *)
(* UNIQUE(key_hex, doc_id).                                                *)
(***************************************************************************)
Row(key_hex, doc_id) == [key_hex |-> key_hex, doc_id |-> doc_id]

\* INSERT OR IGNORE INTO index_entries (key_hex, doc_id) VALUES (?, ?)
SqlInsertOrIgnore(rows, key_hex, doc_id) == rows \cup {Row(key_hex, doc_id)}

\* SqliteIndexBackend.add: the loop with its seen set
RECURSIVE SqlAddLoop(_, _, _, _)
SqlAddLoop(rows, key_hex, doc_ids, seen) ==
    IF doc_ids = <<>> THEN rows
    ELSE IF Head(doc_ids) \in seen
         THEN SqlAddLoop(rows, key_hex, Tail(doc_ids), seen)
         ELSE SqlAddLoop(SqlInsertOrIgnore(rows, key_hex, Head(doc_ids)), key_hex,
                         Tail(doc_ids), seen \cup {Head(doc_ids)})

SqlAdd(rows, key_hex, doc_ids) == SqlAddLoop(rows, key_hex, doc_ids, {})

\* SqliteIndexBackend.add_batch
RECURSIVE SqlAddBatch(_, _)
SqlAddBatch(rows, batch) ==
    IF batch = <<>> THEN rows
    ELSE SqlAddBatch(SqlAdd(rows, Head(batch).k, Head(batch).v), Tail(batch))

\* mutant: every row of a token that holds the doc_id is deleted
SqlRemoveDocIdWholeTokens(rows, doc_id) ==
    {r \in rows : r.key_hex \notin {x.key_hex : x \in {y \in rows : y.doc_id = doc_id}}}

\* DELETE FROM index_entries WHERE doc_id = ?
SqlRemoveDocId(rows, doc_id) == {r \in rows : r.doc_id # doc_id}

\* the order of two byte strings
RECURSIVE BytesLess(_, _)
BytesLess(a, b) ==
    IF b = <<>> THEN FALSE
    ELSE IF a = <<>> THEN TRUE
    ELSE IF Head(a) # Head(b) THEN Head(a) < Head(b)
    ELSE BytesLess(Tail(a), Tail(b))

\* the order of two token_hex strings: a fixed total order on digests
HexLess(h1, h2) ==
    LET a == FromHex(h1)
        b == FromHex(h2)
    IN IF a.key # b.key THEN a.key = K_search ELSE BytesLess(a.msg, b.msg)

DocIdRank(d) == CHOOSE i \in 1..Len(DocIdPool) : DocIdPool[i] = d

\* r1 before r2: by key_hex then doc_id, or (byKey false) by doc_id first
RowLess(r1, r2, byKey) ==
    IF byKey
    THEN IF r1.key_hex # r2.key_hex THEN HexLess(r1.key_hex, r2.key_hex)
         ELSE DocIdRank(r1.doc_id) < DocIdRank(r2.doc_id)
    ELSE IF r1.doc_id # r2.doc_id THEN DocIdRank(r1.doc_id) < DocIdRank(r2.doc_id)
         ELSE HexLess(r1.key_hex, r2.key_hex)

RECURSIVE SortRows(_, _)
SortRows(rows, byKey) ==
    IF rows = {} THEN <<>>
    ELSE LET first == CHOOSE r \in rows : \A o \in rows \ {r} : RowLess(r, o, byKey)
         IN <<first>> \o SortRows(rows \ {first}, byKey)

\* mutant: the rows come back in doc_id order, as without ORDER BY key_hex
SqlSelectUnordered(rows) == SortRows(rows, FALSE)

\* SELECT key_hex, doc_id FROM index_entries ORDER BY key_hex.  SQL leaves the
\* order inside one key_hex open; the scan of the unique index gives doc_id order.
SqlSelectOrderByKey(rows) == SortRows(rows, TRUE)

\* the grouping loop of SqliteIndexBackend.iter_entries
RECURSIVE GroupRows(_, _, _, _)
GroupRows(cur, started, current, out) ==
    IF cur = <<>>
    THEN IF started THEN Append(out, [k |-> current.k, v |-> Dedupe(current.v)]) ELSE out
    ELSE LET r == Head(cur)
         IN IF ~started \/ r.key_hex # current.k
            THEN GroupRows(Tail(cur), TRUE, [k |-> r.key_hex, v |-> <<r.doc_id>>],
                           IF started
                           THEN Append(out, [k |-> current.k, v |-> Dedupe(current.v)])
                           ELSE out)
            ELSE GroupRows(Tail(cur), TRUE,
                           [k |-> current.k, v |-> Append(current.v, r.doc_id)], out)

\* SqliteIndexBackend.iter_entries
SqlIterEntries(rows) ==
    GroupRows(SqlSelectOrderByKey(rows), FALSE, [k |-> "None", v |-> <<>>], <<>>)

(***************************************************************************)
(* Python dicts keyed by strings (documents, keyword_counter) are          *)
(* functions whose domain is the set of keys present.                      *)
(***************************************************************************)
EmptyFn == [x \in {} |-> 0]

FnPut(f, key, val) == [x \in (DOMAIN f) \cup {key} |-> IF x = key THEN val ELSE f[x]]

FnDel(f, key) == [x \in (DOMAIN f) \ {key} |-> f[x]]

\* dict.get(key, default)
FnGet(f, key, default) == IF key \in DOMAIN f THEN f[key] ELSE default

(***************************************************************************)
(* SSEServer.                                                              *)
(***************************************************************************)
\* self._backend.iter_entries()
IterEntries ==
    IF backendKind = "sqlite" THEN SqlIterEntries(sqlRows) ELSE JsonIterEntries(jsonIndex)

\* the (token_hex, doc_id) pairs the server's backend yields
IndexPairs == PairsOf(IterEntries)

\* a write of the backend in use; the JSON backend saves its dict to index.json
BackendWrite(newJson, newRows) ==
    /\ IF backendKind = "sqlite"
       THEN sqlRows' = newRows /\ UNCHANGED <<jsonIndex, jsonFile>>
       ELSE jsonIndex' = newJson /\ jsonFile' = newJson /\ UNCHANGED sqlRows
    /\ UNCHANGED backendKind

\* mutant: only the lengths are compared, and digests all have one length
TokenMatchesLengthOnly(token, stored) == TRUE

\* len(token) == len(stored) and constant_time_equals(token, stored): digests
\* all have the length of SHA-256's output
TokenMatches(token, stored) == token = stored

\* the scan of search_multi: extend the result with the doc_ids of every
\* stored entry that matches one of the tokens
RECURSIVE SearchScan(_, _, _)
SearchScan(entries, tokens, result) ==
    IF entries = <<>> THEN result
    ELSE LET stored == FromHex(Head(entries).k)
         IN SearchScan(Tail(entries), tokens,
                       IF \E i \in 1..Len(tokens) : TokenMatches(tokens[i], stored)
                       THEN result \o Head(entries).v
                       ELSE result)

\* SSEServer.search_multi(tokens, pad_to=0)
SearchMulti(tokens) == Dedupe(SearchScan(IterEntries, tokens, <<>>))

\* SSEServer.search(token, pad_to=0)
ServerSearch(token) == SearchMulti(<<token>>)

\* Python's None
None == [none |-> TRUE]

\* SSEServer.get_document: None when the doc_id is not stored
GetDocument(doc_id) == FnGet(documents, doc_id, None)

\* SSEServer.list_document_ids
ListDocumentIds == DOMAIN documents

\* mutant: the document is kept in memory and no file is written
ServerUploadDocumentMemoryOnly(docs, files, doc_id, blob) ==
    [docs |-> FnPut(docs, doc_id, blob), files |-> files]

\* SSEServer.upload_document
ServerUploadDocument(docs, files, doc_id, blob) ==
    [docs |-> FnPut(docs, doc_id, blob), files |-> FnPut(files, doc_id, blob)]

\* SSEServer.upload_document for each document of a batch, in order
RECURSIVE StoreAll(_, _, _, _)
StoreAll(docs, files, batch, ivs) ==
    IF batch = <<>> THEN [docs |-> docs, files |-> files]
    ELSE LET st == ServerUploadDocument(docs, files, Head(batch)[1],
                                        EncryptDocument(Head(batch)[2], Head(ivs)))
         IN StoreAll(st.docs, st.files, Tail(batch), Tail(ivs))

(***************************************************************************)
(* SSEClient: building the index of a batch.                               *)
(***************************************************************************)
\* index.setdefault(key_hex, []).append(doc_id)
IndexAppend(index, key_hex, doc_id) ==
    DictPut(index, key_hex, Append(DictGet(index, key_hex, <<>>), doc_id))

\* for k in index: index[k] = list(dict.fromkeys(index[k]))
DedupeIndex(index) ==
    [i \in 1..Len(index) |-> [k |-> index[i].k, v |-> Dedupe(index[i].v)]]

RECURSIVE IndexKeywords(_, _, _)
IndexKeywords(index, keywords, doc_id) ==
    IF keywords = <<>> THEN index
    ELSE IndexKeywords(
            IndexAppend(index, Hex(EncryptKeywordForIndex(Head(keywords))), doc_id),
            Tail(keywords), doc_id)

\* the loop of upload_documents over (doc_id, plaintext)
RECURSIVE BuildIndexLoop(_, _)
BuildIndexLoop(index, docs) ==
    IF docs = <<>> THEN index
    ELSE BuildIndexLoop(
            IndexKeywords(index, ExtractKeywords(Head(docs)[2]), Head(docs)[1]),
            Tail(docs))

\* the index upload_documents sends: { trapdoor_hex: [doc_id, ...] }
BuildIndex(docs) == DedupeIndex(BuildIndexLoop(<<>>, docs))

\* mutant: the counter is not advanced after a keyword is indexed
FwdIndexKeywordStale(st, w, doc_id) ==
    LET c == FnGet(st.counter, w, 0)
        key_hex == Hex(BuildForwardSecureIndexKey(w, c))
    IN [index |-> IndexAppend(st.index, key_hex, doc_id),
        counter |-> FnPut(st.counter, w, c),
        trace |-> Append(st.trace, [w |-> w, c |-> c, d |-> doc_id, key |-> key_hex])]

\* one keyword of one document in upload_documents_forward_secure: index it
\* under the current counter, then advance the counter; trace lists what was indexed
FwdIndexKeyword(st, w, doc_id) ==
    LET c == FnGet(st.counter, w, 0)
        key_hex == Hex(BuildForwardSecureIndexKey(w, c))
    IN [index |-> IndexAppend(st.index, key_hex, doc_id),
        counter |-> FnPut(st.counter, w, c + 1),
        trace |-> Append(st.trace, [w |-> w, c |-> c, d |-> doc_id, key |-> key_hex])]

RECURSIVE FwdKeywords(_, _, _)
FwdKeywords(st, keywords, doc_id) ==
    IF keywords = <<>> THEN st
    ELSE FwdKeywords(FwdIndexKeyword(st, Head(keywords), doc_id), Tail(keywords), doc_id)

RECURSIVE BuildFwdLoop(_, _)
BuildFwdLoop(st, docs) ==
    IF docs = <<>> THEN st
    ELSE BuildFwdLoop(FwdKeywords(st, ExtractKeywords(Head(docs)[2]), Head(docs)[1]),
                      Tail(docs))

\* upload_documents_forward_secure: the index sent and the counter it leaves
BuildFwdIndex(counter, docs) ==
    LET st == BuildFwdLoop([index |-> <<>>, counter |-> counter, trace |-> <<>>], docs)
    IN [index |-> DedupeIndex(st.index), counter |-> st.counter, trace |-> st.trace]

\* SSEClient.search(query, pad_to=0)
ClientSearch(query) == ServerSearch(BuildTrapdoor(Lower(Strip(query))))

\* the tokens search_forward_secure sends: none when the counter is 0 or absent
FwdSearchTokens(counter, query) ==
    LET w == Lower(Strip(query))
        max_c == FnGet(counter, w, 0)
    IN IF max_c = 0 THEN <<>> ELSE BuildForwardSecureSearchTokens(w, max_c)

\* SSEClient.search_forward_secure(keyword_counter, query, pad_to=0)
ClientSearchForwardSecure(counter, query) ==
    LET w == Lower(Strip(query))
        max_c == FnGet(counter, w, 0)
    IN IF max_c = 0 THEN <<>> ELSE SearchMulti(FwdSearchTokens(counter, query))

(***************************************************************************)
(* Inputs.                                                                 *)
(***************************************************************************)
SeqsUpTo(S, n) == UNION {[1..m -> S] : m \in 0..n}

\* batches of (doc_id, plaintext)
DocBatches == SeqsUpTo(DocIds \X Texts, MaxBatch) \ {<<>>}

BatchIds(docs) == {docs[i][1] : i \in 1..Len(docs)}

\* index batches as a client sends them
IndexBatches == {BuildIndex(docs) : docs \in DocBatches}

\* token_hex values and doc_id lists given to a backend directly
HexKeys == {Hex(BuildTrapdoor(q)) : q \in Queries}
IdLists == SeqsUpTo(DocIds, MaxBatch)

Blobs == {EncryptDocument(t, iv) : t \in Texts, iv \in IVs}

\* every keyword a text or a query can name
Keywords == UNION {Range(ExtractKeywords(t)) : t \in Texts}
                \cup {Lower(Strip(q)) : q \in Queries}

\* requests in flight: none in the one-call-at-a-time specifications
NoThreads == [mode |-> "none"]

\* no VaultManager constructed
NoVaults == [mode |-> "none"]

\* the index files are not looked at
NoDisk == [mode |-> "none"]

InitHist ==
    [usedIds |-> {}, fwd |-> {}, sent |-> {}, leak |-> {}, ctrLog |-> EmptyFn, sub |-> {}]

InitCommon ==
    /\ documents = EmptyFn
    /\ docFiles = EmptyFn
    /\ jsonIndex = <<>>
    /\ jsonFile = <<>>
    /\ sqlRows = {}
    /\ knownDocIds = {}
    /\ keywordCounter = EmptyFn
    /\ last = [op |-> "init"]
    /\ hist = InitHist
    /\ conc = NoThreads
    /\ vault = NoVaults
    /\ disk = NoDisk

\* a server opened on an empty storage directory, with either backend
Init ==
    /\ InitCommon
    /\ backendKind \in {"json", "sqlite"}

(***************************************************************************)
(* Calls, one at a time.                                                   *)
(***************************************************************************)
\* SSEClient.upload_documents(docs), the doc_ids never used before
UploadDocuments(docs, ivs) ==
    LET st == StoreAll(documents, docFiles, docs, ivs)
        index == BuildIndex(docs)
    IN /\ BatchIds(docs) \cap hist.usedIds = {}
       /\ Cardinality(BatchIds(docs)) = Len(docs)
       /\ knownDocIds' = knownDocIds \cup BatchIds(docs)
       /\ documents' = st.docs
       /\ docFiles' = st.files
       /\ BackendWrite(JsonAddBatch(jsonIndex, index), SqlAddBatch(sqlRows, index))
       /\ last' = [op |-> "upload_documents", n |-> Len(docs)]
       /\ hist' = [hist EXCEPT !.usedIds = @ \cup BatchIds(docs)]
       /\ UNCHANGED <<keywordCounter, conc, vault, disk>>

\* SSEServer.delete_document(doc_id)
DeleteDocument(doc_id) ==
    /\ IF doc_id \notin DOMAIN documents
       THEN /\ last' = [op |-> "delete_document", doc_id |-> doc_id, res |-> FALSE,
                        stored |-> FALSE]
            /\ UNCHANGED serverVars
       ELSE /\ documents' = FnDel(documents, doc_id)
            /\ docFiles' = FnDel(docFiles, doc_id)
            /\ BackendWrite(JsonRemoveDocId(jsonIndex, doc_id),
                            SqlRemoveDocId(sqlRows, doc_id))
            /\ last' = [op |-> "delete_document", doc_id |-> doc_id, res |-> TRUE,
                        stored |-> TRUE]
    /\ hist' = [hist EXCEPT !.fwd = {p \in @ : p[2] # doc_id}]
    /\ UNCHANGED <<clientVars, conc, vault, disk>>

\* SSEClient.search(query)
Search(query) ==
    /\ last' = [op |-> "search", q |-> query, res |-> ClientSearch(query)]
    /\ UNCHANGED <<serverVars, clientVars, hist, conc, vault, disk>>

NextClient ==
    \/ \E docs \in DocBatches : \E ivs \in [1..Len(docs) -> IVs] : UploadDocuments(docs, ivs)
    \/ \E d \in DocIds : DeleteDocument(d)
    \/ \E q \in Queries : Search(q)

SpecClient == Init /\ [][NextClient]_vars

\* decrypt_document: the plaintext of a blob
DecryptDocument(blob) == blob.ct

\* the stored doc_ids whose plaintext has the keyword strip+lowercase(query)
StoredWithKeyword(query) ==
    {d \in DOMAIN documents :
        Lower(Strip(query)) \in Range(ExtractKeywords(DecryptDocument(documents[d])))}

\* C1: after upload_documents calls with distinct doc_ids and delete_document
\* calls, search(q) returns exactly the stored doc_ids whose keyword set holds
\* strip+lowercase(q), each once; queries equal after strip+lowercase get the
\* same result.
C1_SearchReturnsKeywordDocs ==
    /\ \A q \in Queries :
          /\ NoDup(ClientSearch(q))
          /\ Range(ClientSearch(q)) = StoredWithKeyword(q)
    /\ \A q1, q2 \in Queries :
          Lower(Strip(q1)) = Lower(Strip(q2)) => ClientSearch(q1) = ClientSearch(q2)
    /\ last.op = "search" =>
          /\ NoDup(last.res)
          /\ Range(last.res) = StoredWithKeyword(last.q)

\* a search with spaces and a capital finds one document after another that
\* held the keyword was deleted
C1_Witness ==
    /\ last.op = "search"
    /\ last.q = <<" ", "A", " ">>
    /\ Len(last.res) = 1
    /\ \E d \in hist.usedIds \ DOMAIN documents : TRUE
    /\ Cardinality(hist.usedIds) = 2

(***************************************************************************)
(* Forward-private uploads and searches over one shared keyword counter.   *)
(***************************************************************************)
\* how many documents of the batch have keyword w
DocsWithKeyword(docs, w) ==
    Cardinality({i \in 1..Len(docs) : w \in Range(ExtractKeywords(docs[i][2]))})

RECURSIVE LogCounters(_, _)
LogCounters(log, trace) ==
    IF trace = <<>> THEN log
    ELSE LogCounters(FnPut(log, Head(trace).w,
                           Append(FnGet(log, Head(trace).w, <<>>), Head(trace).c)),
                     Tail(trace))

\* SSEClient.upload_documents_forward_secure(keyword_counter, docs)
UploadDocumentsForwardSecure(docs, ivs) ==
    LET st == StoreAll(documents, docFiles, docs, ivs)
        r == BuildFwdIndex(keywordCounter, docs)
    IN /\ \A w \in DOMAIN r.counter : r.counter[w] <= MaxCtr
       /\ documents' = st.docs
       /\ docFiles' = st.files
       /\ BackendWrite(JsonAddBatch(jsonIndex, r.index), SqlAddBatch(sqlRows, r.index))
       /\ keywordCounter' = r.counter
       /\ last' = [op |-> "upload_fwd", n |-> Len(docs),
                   cnt |-> [w \in Keywords |-> DocsWithKeyword(docs, w)]]
       /\ hist' = [hist EXCEPT
                     !.fwd = @ \cup {<<r.trace[i].w, r.trace[i].d>> : i \in 1..Len(r.trace)},
                     !.leak = @ \cup {r.trace[i].key : i \in
                                        {j \in 1..Len(r.trace) :
                                            FromHex(r.trace[j].key) \in hist.sent}},
                     !.ctrLog = LogCounters(@, r.trace)]
       /\ UNCHANGED <<knownDocIds, conc, vault, disk>>

\* SSEClient.search_forward_secure(keyword_counter, query)
SearchForwardSecure(query) ==
    /\ last' = [op |-> "search_fwd", q |-> query,
                c |-> FnGet(keywordCounter, Lower(Strip(query)), 0),
                tokens |-> FwdSearchTokens(keywordCounter, query),
                res |-> ClientSearchForwardSecure(keywordCounter, query)]
    /\ hist' = [hist EXCEPT !.sent = @ \cup Range(FwdSearchTokens(keywordCounter, query))]
    /\ UNCHANGED <<serverVars, clientVars, conc, vault, disk>>

NextFwd ==
    \/ \E docs \in DocBatches : \E ivs \in [1..Len(docs) -> IVs] :
          UploadDocumentsForwardSecure(docs, ivs)
    \/ \E d \in DocIds : DeleteDocument(d)
    \/ \E q \in Queries : SearchForwardSecure(q)

SpecFwd == Init /\ [][NextFwd]_vars

\* the stored doc_ids that were uploaded with the keyword strip+lowercase(query)
StoredUploadedWith(query) ==
    {d \in DOMAIN documents : <<Lower(Strip(query)), d>> \in hist.fwd}

\* C2: search_forward_secure(counter, w) returns exactly the still-stored
\* doc_ids uploaded with keyword w, across all counter versions, and [] when
\* the counter has no entry for w.
C2_FwdSearchReturnsUploaded ==
    /\ \A q \in Queries :
          /\ Range(ClientSearchForwardSecure(keywordCounter, q)) = StoredUploadedWith(q)
          /\ Lower(Strip(q)) \notin DOMAIN keywordCounter =>
                ClientSearchForwardSecure(keywordCounter, q) = <<>>
    /\ last.op = "search_fwd" => Range(last.res) = StoredUploadedWith(last.q)

\* a search finds two documents indexed under two counter values of one keyword
C2_Witness ==
    /\ last.op = "search_fwd"
    /\ last.c = 2
    /\ Cardinality(Range(last.res)) = 2

\* C3: the tokens a search sends for w at counter c are among IK(w,0..c-1),
\* and no later forward-secure upload stores a keyword under a token that an
\* earlier search sent.
C3_ForwardPrivacy ==
    /\ last.op = "search_fwd" =>
          Range(last.tokens) \subseteq
             {BuildForwardSecureIndexKey(Lower(Strip(last.q)), i) : i \in 0..(last.c - 1)}
    /\ hist.leak = {}

\* a keyword searched at counter 1 is then uploaded again, under counter 1
C3_Witness ==
    /\ last.op = "upload_fwd"
    /\ \E w \in DOMAIN keywordCounter :
          /\ keywordCounter[w] = 2
          /\ BuildForwardSecureIndexKey(w, 0) \in hist.sent
          /\ BuildForwardSecureIndexKey(w, 1) \notin hist.sent

StrictlyIncreasing(s) == \A i, j \in 1..Len(s) : i < j => s[i] < s[j]

\* C4: upload_documents_forward_secure raises counter[w] by 1 per document of
\* the batch that has keyword w and leaves the other counters alone; no step
\* lowers a counter; the documents of a keyword are indexed under strictly
\* increasing counter values.
C4_CounterSteps ==
    [][/\ \A w \in Keywords :
             FnGet(keywordCounter', w, 0) =
                FnGet(keywordCounter, w, 0) +
                   (IF last'.op = "upload_fwd" THEN last'.cnt[w] ELSE 0)
       /\ DOMAIN keywordCounter \subseteq DOMAIN keywordCounter'
       /\ DOMAIN keywordCounter' \subseteq Keywords
       /\ \A w \in DOMAIN hist'.ctrLog : StrictlyIncreasing(hist'.ctrLog[w])]_vars

\* one batch of two documents took the counter of the keyword both have from
\* 0 to 2 and the counter of a keyword only one has from 0 to 1
C4_Witness ==
    /\ last.op = "upload_fwd"
    /\ last.n = 2
    /\ \E w, x \in DOMAIN keywordCounter :
          /\ keywordCounter[w] = 2
          /\ hist.ctrLog[w] = <<0, 1>>
          /\ last.cnt[w] = 2
          /\ keywordCounter[x] = 1
          /\ last.cnt[x] = 1

(***************************************************************************)
(* The server's own calls.                                                 *)
(***************************************************************************)
\* SSEServer.upload_document(doc_id, ciphertext)
UploadDocument(doc_id, blob) ==
    LET st == ServerUploadDocument(documents, docFiles, doc_id, blob)
    IN /\ documents' = st.docs
       /\ docFiles' = st.files
       /\ last' = [op |-> "upload_document", doc_id |-> doc_id]
       /\ UNCHANGED <<backendKind, jsonIndex, jsonFile, sqlRows, clientVars, hist, conc, vault, disk>>

\* SSEServer.upload_index(index)
UploadIndex(index) ==
    /\ BackendWrite(JsonAddBatch(jsonIndex, index), SqlAddBatch(sqlRows, index))
    /\ last' = [op |-> "upload_index", n |-> Len(index)]
    /\ UNCHANGED <<documents, docFiles, clientVars, hist, conc, vault, disk>>

NextServer ==
    \/ \E d \in DocIds, blob \in Blobs : UploadDocument(d, blob)
    \/ \E index \in IndexBatches : UploadIndex(index)
    \/ \E d \in DocIds : DeleteDocument(d)

SpecServer == Init /\ [][NextServer]_vars

\* C5: after delete_document(d) returns, no entry of iter_entries() contains d
\* and get_document(d) finds nothing; it returns True exactly when d was stored.
C5_DeleteLeavesNoTrace ==
    last.op = "delete_document" =>
        /\ \A p \in IndexPairs : p[2] # last.doc_id
        /\ GetDocument(last.doc_id) = None
        /\ last.res = last.stored

(***************************************************************************)
(* The two index backends, given the same calls.                           *)
(***************************************************************************)
InitBackend ==
    /\ InitCommon
    /\ backendKind = "json"

BackendCall(op, batch, newJson, newRows) ==
    /\ jsonIndex' = newJson
    /\ jsonFile' = newJson
    /\ sqlRows' = newRows
    /\ last' = [op |-> op, batch |-> batch]
    /\ UNCHANGED <<documents, docFiles, backendKind, clientVars, hist, conc, vault, disk>>

\* add(key_hex, doc_ids) on both backends
BackendAdd(key_hex, doc_ids) ==
    BackendCall("add", <<[k |-> key_hex, v |-> doc_ids]>>,
                JsonAdd(jsonIndex, key_hex, doc_ids), SqlAdd(sqlRows, key_hex, doc_ids))

\* add_batch(index) on both backends
BackendAddBatch(index) ==
    BackendCall("add_batch", index,
                JsonAddBatch(jsonIndex, index), SqlAddBatch(sqlRows, index))

\* remove_doc_id(doc_id) on both backends
BackendRemoveDocId(doc_id) ==
    /\ jsonIndex' = JsonRemoveDocId(jsonIndex, doc_id)
    /\ jsonFile' = jsonIndex'
    /\ sqlRows' = SqlRemoveDocId(sqlRows, doc_id)
    /\ last' = [op |-> "remove_doc_id", doc_id |-> doc_id,
                removed |-> Cardinality({p \in PairsOf(jsonIndex) : p[2] = doc_id}),
                dropped |-> Len(jsonIndex) - Len(jsonIndex')]
    /\ UNCHANGED <<documents, docFiles, backendKind, clientVars, hist, conc, vault, disk>>

NextBackend ==
    \/ \E key_hex \in HexKeys, doc_ids \in IdLists : BackendAdd(key_hex, doc_ids)
    \/ \E index \in IndexBatches : BackendAddBatch(index)
    \/ \E d \in DocIds : BackendRemoveDocId(d)

SpecBackend == InitBackend /\ [][NextBackend]_vars

KeySeq(entries) == [i \in 1..Len(entries) |-> entries[i].k]

\* C6: iter_entries() yields every stored token_hex exactly once and no doc_id
\* twice under one token, on the JSON and on the SQLite backend.
C6_PairsUnique ==
    /\ NoDup(KeySeq(JsonIterEntries(jsonIndex)))
    /\ Range(KeySeq(JsonIterEntries(jsonIndex))) = DictKeys(jsonIndex)
    /\ \A i \in 1..Len(JsonIterEntries(jsonIndex)) : NoDup(JsonIterEntries(jsonIndex)[i].v)
    /\ NoDup(KeySeq(SqlIterEntries(sqlRows)))
    /\ Range(KeySeq(SqlIterEntries(sqlRows))) = {r.key_hex : r \in sqlRows}
    /\ \A i \in 1..Len(SqlIterEntries(sqlRows)) : NoDup(SqlIterEntries(sqlRows)[i].v)

\* two tokens hold two doc_ids each, after a list with a repeated doc_id was added
C6_Witness ==
    /\ last.op = "add"
    /\ ~NoDup(last.batch[1].v)
    /\ Cardinality({r.key_hex : r \in sqlRows}) >= 2
    /\ \A i \in 1..Len(JsonIterEntries(jsonIndex)) : Len(JsonIterEntries(jsonIndex)[i].v) = 2
    /\ Cardinality(sqlRows) >= 4

\* C7: after remove_doc_id(d) no yielded entry contains d, no yielded token has
\* an empty list, and every pair of another doc_id is still there.
C7_RemoveDocIdFrame ==
    [][last'.op = "remove_doc_id" =>
          /\ \A p \in PairsOf(JsonIterEntries(jsonIndex')) : p[2] # last'.doc_id
          /\ \A p \in PairsOf(SqlIterEntries(sqlRows')) : p[2] # last'.doc_id
          /\ \A i \in 1..Len(JsonIterEntries(jsonIndex')) :
                JsonIterEntries(jsonIndex')[i].v # <<>>
          /\ \A i \in 1..Len(SqlIterEntries(sqlRows')) :
                SqlIterEntries(sqlRows')[i].v # <<>>
          /\ {p \in PairsOf(JsonIterEntries(jsonIndex)) : p[2] # last'.doc_id}
                \subseteq PairsOf(JsonIterEntries(jsonIndex'))
          /\ {p \in PairsOf(SqlIterEntries(sqlRows)) : p[2] # last'.doc_id}
                \subseteq PairsOf(SqlIterEntries(sqlRows'))]_vars

\* a removal took a doc_id out of two tokens, dropped one of them and left a pair
C7_Witness ==
    /\ last.op = "remove_doc_id"
    /\ last.removed >= 2
    /\ last.dropped >= 1
    /\ PairsOf(JsonIterEntries(jsonIndex)) # {}
    /\ sqlRows # {}

\* every token of the batch has doc_ids and all its pairs are among pairs
AllPresent(batch, pairs) ==
    \A i \in 1..Len(batch) :
        /\ batch[i].v # <<>>
        /\ \A d \in Range(batch[i].v) : <<batch[i].k, d>> \in pairs

\* C8: an add or add_batch (so an upload_index) of pairs that are all present
\* leaves the set of pairs and the output of iter_entries() as they were.
C8_AddPresentIsNoop ==
    [][last'.op \in {"add", "add_batch"} =>
          /\ AllPresent(last'.batch, PairsOf(JsonIterEntries(jsonIndex))) =>
                JsonIterEntries(jsonIndex') = JsonIterEntries(jsonIndex)
          /\ AllPresent(last'.batch, PairsOf(SqlIterEntries(sqlRows))) =>
                /\ SqlIterEntries(sqlRows') = SqlIterEntries(sqlRows)
                /\ sqlRows' = sqlRows]_vars

\* a batch of two tokens was added when all its pairs were there already
C8_Witness ==
    /\ last.op = "add_batch"
    /\ Len(last.batch) = 2
    /\ \E i \in 1..2 : Len(last.batch[i].v) = 2
    /\ AllPresent(last.batch, PairsOf(JsonIterEntries(jsonIndex)))
    /\ Cardinality(PairsOf(JsonIterEntries(jsonIndex))) = Cardinality(PairsOf(last.batch))
    /\ PairsOf(SqlIterEntries(sqlRows)) = PairsOf(last.batch)

(***************************************************************************)
(* Concurrent requests on one vault.  A thread runs one server call at a   *)
(* time, a step at a time.  The index is the SQLite table: a connection    *)
(* reads the committed rows and its own uncommitted ones, and one          *)
(* connection at a time holds the database's write lock.                   *)
(***************************************************************************)
Threads == {"t1", "t2"}

Objects == {"shared"} \cup Threads

\* the SSEServer a thread's request runs on: the one object all threads share,
\* or the object get_sse_client_for_vault builds for the request
ObjOf(t) == IF conc.mode = "shared" THEN "shared" ELSE t

\* the documents, index batches and token lists the requests carry
ConcDocs == {<<DocIdPool[i], TextPool[i]>> : i \in 1..NumDocs}
ConcBatches == {b \in SeqsUpTo(ConcDocs, MaxBatch) : b # <<>> /\ NoDup(b)}
ConcTokenLists ==
    {l \in SeqsUpTo({BuildTrapdoor(q) : q \in Queries}, MaxBatch) : l # <<>> /\ NoDup(l)}

Idle == [pc |-> "idle", op |-> "none", doc_id |-> "", blob |-> None,
         todo |-> <<>>, cur |-> <<>>]

NoTx == [open |-> FALSE, view |-> {}]

NoObs == [inflight |-> FALSE]

InitConc ==
    /\ documents = EmptyFn
    /\ docFiles = EmptyFn
    /\ backendKind = "sqlite"
    /\ jsonIndex = <<>>
    /\ jsonFile = <<>>
    /\ sqlRows = {}
    /\ knownDocIds = {}
    /\ keywordCounter = EmptyFn
    /\ last = [op |-> "init"]
    /\ hist = InitHist
    /\ vault = NoVaults
    /\ disk = NoDisk
    /\ \E mode \in {"shared", "per_request"} :
          conc = [mode |-> mode,
                  th |-> [t \in Threads |-> Idle],
                  lock |-> [o \in Objects |-> "free"],
                  tx |-> [o \in Objects |-> NoTx],
                  mem |-> [o \in Objects |-> EmptyFn],
                  batch |-> [t \in Threads |-> None],
                  obs |-> NoObs]

ConcFrame ==
    UNCHANGED <<documents, backendKind, jsonIndex, jsonFile, knownDocIds,
                keywordCounter, last, hist, vault, disk>>

\* the rows a connection's SELECT reads
Visible(o) == IF conc.tx[o].open THEN conc.tx[o].view ELSE sqlRows

RowPairs(rows) == {<<r.key_hex, r.doc_id>> : r \in rows}

\* SQLite grants the write lock to one connection at a time
CanWrite(o) == \A p \in Objects \ {o} : ~conc.tx[p].open

\* SSEServer.__init__ of a request's own object: _load_documents reads the files
LoadDocuments(t) ==
    IF conc.mode = "shared" THEN conc.mem ELSE [conc.mem EXCEPT ![t] = docFiles]

\* a write of thread t falls into the batches the other threads have in flight
MarkOthers(t) ==
    [u \in Threads |-> IF u # t /\ conc.batch[u] # None
                       THEN [conc.batch[u] EXCEPT !.clean = FALSE]
                       ELSE conc.batch[u]]

\* a request arrives: upload_document(doc_id, ciphertext)
CallUploadDocument(t, doc_id, blob) ==
    /\ conc.th[t].pc = "idle"
    /\ conc' = [conc EXCEPT !.th[t] = [Idle EXCEPT !.pc = "lock", !.op = "upload_document",
                                                   !.doc_id = doc_id, !.blob = blob],
                            !.mem = LoadDocuments(t),
                            !.obs = NoObs]
    /\ UNCHANGED <<docFiles, sqlRows>>
    /\ ConcFrame

\* a request arrives: upload_index(index)
CallUploadIndex(t, index) ==
    /\ conc.th[t].pc = "idle"
    /\ conc' = [conc EXCEPT !.th[t] = [Idle EXCEPT !.pc = "lock", !.op = "upload_index",
                                                   !.todo = index],
                            !.mem = LoadDocuments(t),
                            !.obs = NoObs]
    /\ UNCHANGED <<docFiles, sqlRows>>
    /\ ConcFrame

\* a request arrives: delete_document(doc_id)
CallDeleteDocument(t, doc_id) ==
    /\ conc.th[t].pc = "idle"
    /\ conc' = [conc EXCEPT !.th[t] = [Idle EXCEPT !.pc = "lock", !.op = "delete_document",
                                                   !.doc_id = doc_id],
                            !.mem = LoadDocuments(t),
                            !.obs = NoObs]
    /\ UNCHANGED <<docFiles, sqlRows>>
    /\ ConcFrame

\* with self._lock: the RLock of the thread's own SSEServer
AcquireLock(t) ==
    LET o == ObjOf(t)
        th == conc.th[t]
    IN /\ th.pc = "lock"
       /\ conc.lock[o] = "free"
       /\ conc' = [conc EXCEPT
             !.lock[o] = t,
             !.th[t] = IF th.op = "upload_document" THEN [th EXCEPT !.pc = "put_mem"]
                       ELSE IF th.op = "delete_document" THEN [th EXCEPT !.pc = "check"]
                       ELSE IF th.todo = <<>> THEN [th EXCEPT !.pc = "release"]
                       ELSE [th EXCEPT !.pc = "add", !.cur = Dedupe(Head(th.todo).v)],
             !.batch[t] = IF th.op = "upload_index"
                          THEN [new |-> PairsOf(th.todo) \ RowPairs(Visible(o)),
                                clean |-> TRUE]
                          ELSE None,
             !.obs = NoObs]
       /\ UNCHANGED <<docFiles, sqlRows>>
       /\ ConcFrame

\* upload_document: self._documents[doc_id] = ciphertext
StoreInMemory(t) ==
    LET o == ObjOf(t)
        th == conc.th[t]
    IN /\ th.pc = "put_mem"
       /\ conc' = [conc EXCEPT !.mem[o] = FnPut(@, th.doc_id, th.blob),
                               !.th[t].pc = "put_file",
                               !.obs = NoObs]
       /\ UNCHANGED <<docFiles, sqlRows>>
       /\ ConcFrame

\* upload_document: (self._docs_path() / doc_id).write_bytes(ciphertext)
WriteFile(t) ==
    LET th == conc.th[t]
    IN /\ th.pc = "put_file"
       /\ docFiles' = FnPut(docFiles, th.doc_id, th.blob)
       /\ conc' = [conc EXCEPT !.th[t].pc = "release", !.obs = NoObs]
       /\ UNCHANGED sqlRows
       /\ ConcFrame

\* SqliteIndexBackend.add: one INSERT OR IGNORE, in the connection's transaction
InsertRow(t) ==
    LET o == ObjOf(t)
        th == conc.th[t]
    IN /\ th.pc = "add"
       /\ th.cur # <<>>
       /\ CanWrite(o)
       /\ conc' = [conc EXCEPT
             !.tx[o] = [open |-> TRUE,
                        view |-> SqlInsertOrIgnore(Visible(o), Head(th.todo).k, Head(th.cur))],
             !.th[t].cur = Tail(th.cur),
             !.batch = MarkOthers(t),
             !.obs = NoObs]
       /\ UNCHANGED <<docFiles, sqlRows>>
       /\ ConcFrame

\* SqliteIndexBackend.add: self._conn.commit() after the doc_ids of one key;
\* add_batch goes on to the next key
CommitAdd(t) ==
    LET o == ObjOf(t)
        th == conc.th[t]
        rest == Tail(th.todo)
    IN /\ th.pc = "add"
       /\ th.cur = <<>>
       /\ sqlRows' = Visible(o)
       /\ conc' = [conc EXCEPT
             !.tx[o] = NoTx,
             !.th[t] = IF rest = <<>> THEN [th EXCEPT !.pc = "release", !.todo = <<>>]
                       ELSE [th EXCEPT !.todo = rest, !.cur = Dedupe(Head(rest).v)],
             !.obs = NoObs]
       /\ UNCHANGED docFiles
       /\ ConcFrame

\* delete_document: the test of self._documents and the del
CheckStored(t) ==
    LET o == ObjOf(t)
        th == conc.th[t]
    IN /\ th.pc = "check"
       /\ conc' = IF th.doc_id \notin DOMAIN conc.mem[o]
                  THEN [conc EXCEPT !.th[t].pc = "release", !.obs = NoObs]
                  ELSE [conc EXCEPT !.mem[o] = FnDel(@, th.doc_id),
                                    !.th[t].pc = "unlink",
                                    !.obs = NoObs]
       /\ UNCHANGED <<docFiles, sqlRows>>
       /\ ConcFrame

\* delete_document: if doc_path.exists(): doc_path.unlink()
UnlinkFile(t) ==
    LET th == conc.th[t]
    IN /\ th.pc = "unlink"
       /\ docFiles' = FnDel(docFiles, th.doc_id)
       /\ conc' = [conc EXCEPT !.th[t].pc = "purge", !.obs = NoObs]
       /\ UNCHANGED sqlRows
       /\ ConcFrame

\* SqliteIndexBackend.remove_doc_id: the DELETE, in the connection's transaction
DeleteRows(t) ==
    LET o == ObjOf(t)
        th == conc.th[t]
    IN /\ th.pc = "purge"
       /\ CanWrite(o)
       /\ conc' = [conc EXCEPT
             !.tx[o] = [open |-> TRUE, view |-> SqlRemoveDocId(Visible(o), th.doc_id)],
             !.th[t].pc = "purge_commit",
             !.batch = MarkOthers(t),
             !.obs = NoObs]
       /\ UNCHANGED <<docFiles, sqlRows>>
       /\ ConcFrame

\* SqliteIndexBackend.remove_doc_id: self._conn.commit()
CommitDelete(t) ==
    LET o == ObjOf(t)
    IN /\ conc.th[t].pc = "purge_commit"
       /\ sqlRows' = Visible(o)
       /\ conc' = [conc EXCEPT !.tx[o] = NoTx, !.th[t].pc = "release", !.obs = NoObs]
       /\ UNCHANGED docFiles
       /\ ConcFrame

\* the end of the with block: the lock is released and the call returns
ReleaseLock(t) ==
    LET o == ObjOf(t)
    IN /\ conc.th[t].pc = "release"
       /\ conc' = [conc EXCEPT !.lock[o] = "free",
                               !.th[t] = Idle,
                               !.batch[t] = None,
                               !.obs = NoObs]
       /\ UNCHANGED <<docFiles, sqlRows>>
       /\ ConcFrame

\* the batches of other threads that are in flight and that no other write
\* has touched
InFlight(t) == {u \in Threads \ {t} : conc.batch[u] # None /\ conc.batch[u].clean}

\* search_multi(tokens), which takes no lock: the scan of iter_entries().  It
\* notes which new pairs of an in-flight batch, under the tokens searched, it saw.
ConcurrentSearch(t, tokens) ==
    LET o == ObjOf(t)
        entries == SqlIterEntries(Visible(o))
        res == Dedupe(SearchScan(entries, tokens, <<>>))
        asked(pairs) == {p \in pairs : \E i \in 1..Len(tokens) :
                                           TokenMatches(tokens[i], FromHex(p[1]))}
    IN /\ conc.th[t].pc = "idle"
       /\ conc' = [conc EXCEPT
             !.mem = LoadDocuments(t),
             !.obs = IF InFlight(t) = {} THEN NoObs
                     ELSE LET u == CHOOSE u \in InFlight(t) : TRUE
                          IN [inflight |-> TRUE, res |-> res,
                              seen |-> asked(PairsOf(entries) \cap conc.batch[u].new),
                              all |-> asked(conc.batch[u].new)]]
       /\ UNCHANGED <<docFiles, sqlRows>>
       /\ ConcFrame

NextConc ==
    \E t \in Threads :
        \/ \E doc \in ConcDocs, iv \in IVs :
              CallUploadDocument(t, doc[1], EncryptDocument(doc[2], iv))
        \/ \E docs \in ConcBatches : CallUploadIndex(t, BuildIndex(docs))
        \/ \E d \in DocIds : CallDeleteDocument(t, d)
        \/ AcquireLock(t)
        \/ StoreInMemory(t)
        \/ WriteFile(t)
        \/ InsertRow(t)
        \/ CommitAdd(t)
        \/ CheckStored(t)
        \/ UnlinkFile(t)
        \/ DeleteRows(t)
        \/ CommitDelete(t)
        \/ ReleaseLock(t)
        \/ \E tokens \in ConcTokenLists : ConcurrentSearch(t, tokens)

SpecConc == InitConc /\ [][NextConc]_vars

\* C9: a search that runs while a batch is being added sees either all the
\* new pairs of that batch (under the tokens it asks for) or none of them.
C9_SearchSeesWholeBatchOrNone ==
    conc.obs.inflight => conc.obs.seen \in {{}, conc.obs.all}

\* a thread is inside the write section of upload_document, upload_index or
\* delete_document: between taking the lock and releasing it
InWriteSection(t) ==
    conc.th[t].pc \in {"put_mem", "put_file", "add", "check", "unlink", "purge",
                       "purge_commit", "release"}

\* C10: at any time at most one mutating call on the vault is inside its write
\* section, whichever server object it runs on.
C10_WritesNeverOverlap ==
    Cardinality({t \in Threads : InWriteSection(t)}) <= 1

(***************************************************************************)
(* VaultManager: vault state and key lifecycle.                            *)
(*                                                                         *)
(* A key is the record of how it was derived: a KDF and a hash are ideal,  *)
(* so two keys are equal exactly when they were derived alike.  Key        *)
(* buffers are bytearrays, never shared: every hand-over is a copy.        *)
(***************************************************************************)
MaxTime == 2

SALT_SIZE == 32
SCRYPT_KEY_LEN == 32
PBKDF2_KEY_LEN == 32

Passwords == {"password123", "secret"}

\* the salts os.urandom hands out, in order, and a salt a caller cut short
GeneratedSalts == <<[id |-> "s1", len |-> SALT_SIZE], [id |-> "s2", len |-> SALT_SIZE]>>
ShortSalt == [id |-> "s0", len |-> 8]

\* a K_master a caller supplies that is too short
ShortKey == [kdf |-> "raw", len |-> 16]

Some(x) == [val |-> x]

\* kdf.scrypt_derive
ScryptDerive(password, salt) ==
    [kdf |-> "scrypt", pw |-> password, salt |-> salt, len |-> SCRYPT_KEY_LEN]

\* kdf.pbkdf2_derive
Pbkdf2Derive(password, salt) ==
    [kdf |-> "pbkdf2", pw |-> password, salt |-> salt, len |-> PBKDF2_KEY_LEN]

\* hashlib.sha256(x).digest()
Sha256(x) == [sha256 |-> x]

\* kdf._hkdf_extract and kdf.hkdf_derive
HkdfExtract(salt, ikm) == HMAC(salt, ikm)
HkdfDerive(prk, info) == HMAC(prk, <<info, 1>>)

\* kdf.derive_vault_keys
DeriveVaultKeys(k_master) ==
    LET prk == HkdfExtract("", k_master)
    IN [k_file_enc |-> HkdfDerive(prk, "vault.v1.k_file_enc"),
        k_filename_enc |-> HkdfDerive(prk, "vault.v1.k_filename_enc"),
        k_search |-> HkdfDerive(prk, "vault.v1.k_search"),
        k_index |-> HkdfDerive(prk, "vault.v1.k_index"),
        k_index_mac |-> HkdfDerive(prk, "vault.v1.k_index_mac")]

\* mutant: the password does not enter the key
DeriveVaultKeysFromSaltOnly(password, salt, use_scrypt) ==
    LET k_master == ScryptDerive("", salt)
    IN [k_master |-> k_master, bundle |-> DeriveVaultKeys(k_master)]

\* kdf.derive_vault_keys_from_password
DeriveVaultKeysFromPassword(password, salt, use_scrypt) ==
    LET k_master == IF use_scrypt THEN ScryptDerive(password, salt)
                    ELSE Pbkdf2Derive(password, salt)
    IN [k_master |-> k_master, bundle |-> DeriveVaultKeys(k_master)]

\* n bytes that are all 0
Zeros(n) == [zeros |-> TRUE, len |-> n]

\* vault._secure_zero(b): every byte of the bytearray is set to 0
SecureZero(buf) == [bytes |-> Zeros(buf.bytes.len)]

\* bytearray(k_master): a new buffer holding a copy of the key
NewBuffer(k_master) == [bytes |-> k_master]

\* VaultManager.__init__
NewManager(timeout) ==
    [state |-> "LOCKED", keys |-> None, k_master_buf |-> None, salt |-> None,
     timeout |-> timeout, last_activity |-> 0]

\* VaultManager.is_unlocked
IsUnlocked(mgr) == mgr.state = "UNLOCKED" /\ mgr.keys # None

\* the contents of the buffer a manager lets go of when it drops its reference
Released(buf) == IF buf = None THEN {} ELSE {buf.bytes}

\* mutant: _store_keys keeps the bundle and no buffer
StoreKeysNoBuffer(mgr, k_master, bundle) ==
    [mgr |-> [mgr EXCEPT !.keys = bundle], released |-> {}]

\* VaultManager._store_keys: the buffer held before, if any, is let go as it is
StoreKeys(mgr, k_master, bundle) ==
    [mgr |-> [mgr EXCEPT !.k_master_buf = NewBuffer(k_master), !.keys = bundle],
     released |-> Released(mgr.k_master_buf)]

\* mutant: lock_vault lets the buffer go without zeroing it
LockVaultNoZero(mgr) ==
    [mgr |-> [mgr EXCEPT !.k_master_buf = None, !.keys = None, !.state = "LOCKED"],
     released |-> Released(mgr.k_master_buf)]

\* mutant: lock_vault zeroes the buffer and keeps its reference to it
LockVaultKeepBuffer(mgr) ==
    [mgr |-> [mgr EXCEPT !.k_master_buf = IF @ = None THEN None ELSE SecureZero(@),
                         !.keys = None, !.state = "LOCKED"],
     released |-> {}]

\* VaultManager.lock_vault
LockVault(mgr) ==
    [mgr |-> [mgr EXCEPT !.k_master_buf = None, !.keys = None, !.state = "LOCKED"],
     released |-> IF mgr.k_master_buf # None
                  THEN Released(SecureZero(mgr.k_master_buf))
                  ELSE {}]

\* raise ValueError(msg)
ValueError(msg) == [raise |-> "ValueError", msg |-> msg]

\* VaultManager.load_vault, the salt already generated when the caller gave none
LoadVault(mgr, now, password, salt, created, use_scrypt, stored_verifier) ==
    IF salt.len < 16
    THEN [mgr |-> mgr, released |-> {},
          res |-> ValueError("Salt must be at least 16 bytes")]
    ELSE LET d == DeriveVaultKeysFromPassword(password, salt, use_scrypt)
             verifier == Sha256(d.k_master)
             salted == [mgr EXCEPT !.salt = salt]
             st == StoreKeys(salted, d.k_master, d.bundle)
         IN IF stored_verifier # None /\ verifier # stored_verifier
            THEN [mgr |-> salted, released |-> {}, res |-> ValueError("Invalid password")]
            ELSE [mgr |-> [st.mgr EXCEPT !.state = "UNLOCKED", !.last_activity = now],
                  released |-> st.released,
                  res |-> IF created THEN [salt |-> salt, verifier |-> verifier]
                          ELSE [salt |-> salt]]

\* VaultManager.unlock_with_master_key
UnlockWithMasterKey(mgr, now, k_master) ==
    IF k_master.len < 32
    THEN [mgr |-> mgr, released |-> {},
          res |-> ValueError("K_master must be at least 32 bytes")]
    ELSE LET st == StoreKeys(mgr, k_master, DeriveVaultKeys(k_master))
         IN [mgr |-> [st.mgr EXCEPT !.state = "UNLOCKED", !.last_activity = now,
                                    !.salt = None],
             released |-> st.released, res |-> None]

\* mutant: the idle time is not compared with the timeout
InactivityExpiredAlways(mgr, now) ==
    /\ IsUnlocked(mgr)
    /\ mgr.timeout # None
    /\ mgr.timeout.val > 0

\* the test of check_inactivity_and_lock
InactivityExpired(mgr, now) ==
    /\ IsUnlocked(mgr)
    /\ mgr.timeout # None
    /\ mgr.timeout.val > 0
    /\ now - mgr.last_activity >= mgr.timeout.val

\* VaultManager.check_inactivity_and_lock
CheckInactivityAndLock(mgr, now) ==
    IF InactivityExpired(mgr, now)
    THEN LET st == LockVault(mgr)
         IN [mgr |-> st.mgr, released |-> st.released, res |-> TRUE]
    ELSE [mgr |-> mgr, released |-> {}, res |-> FALSE]

\* VaultManager.get_keys
GetKeys(mgr, now) ==
    IF ~IsUnlocked(mgr) THEN [mgr |-> mgr, released |-> {}, res |-> None]
    ELSE [mgr |-> [mgr EXCEPT !.last_activity = now], released |-> {}, res |-> mgr.keys]

\* VaultManager.get_k_master_for_compat: bytes(self._k_master_buf), a copy
GetKMasterForCompat(mgr, now) ==
    IF mgr.k_master_buf = None THEN [mgr |-> mgr, released |-> {}, res |-> None]
    ELSE [mgr |-> [mgr EXCEPT !.last_activity = now], released |-> {},
          res |-> mgr.k_master_buf.bytes]

(***************************************************************************)
(* Calls on the VaultManagers of a process, one at a time, and the clock.  *)
(***************************************************************************)
\* inactivity_timeout_seconds: None, not positive, or a number of ticks
Timeouts == {None, Some(0), Some(2)}

InitVaultWith(ms, timeouts) ==
    /\ documents = EmptyFn
    /\ docFiles = EmptyFn
    /\ backendKind = "sqlite"
    /\ jsonIndex = <<>>
    /\ jsonFile = <<>>
    /\ sqlRows = {}
    /\ knownDocIds = {}
    /\ keywordCounter = EmptyFn
    /\ last = [op |-> "init"]
    /\ hist = InitHist
    /\ conc = NoThreads
    /\ disk = NoDisk
    /\ \E timeout \in timeouts :
          vault = [mgr |-> [m \in ms |-> NewManager(timeout)],
                   now |-> 0,
                   nsalts |-> 0,
                   created |-> {},
                   client |-> None]

\* one VaultManager, as get_vault keeps per (user_id, vault_id)
InitVault == InitVaultWith({"m1"}, Timeouts)

VaultFrame ==
    UNCHANGED <<documents, docFiles, backendKind, jsonIndex, jsonFile, sqlRows,
                knownDocIds, keywordCounter, hist, conc, disk>>

\* the record of a call: what it returned, the contents of the buffers the
\* manager let go of, the state the call was made in, and whether the
\* inactivity timeout had elapsed by then
VaultCall(op, m, r) ==
    [op |-> op, m |-> m, res |-> r.res, released |-> r.released,
     was |-> vault.mgr[m].state,
     expired |-> InactivityExpired(vault.mgr[m], vault.now)]

\* time.monotonic() moves on
Tick ==
    /\ vault.now < MaxTime
    /\ vault' = [vault EXCEPT !.now = @ + 1]
    /\ last' = [op |-> "tick"]
    /\ VaultFrame

\* load_vault(password, salt=None, use_scrypt): a vault is created
VmCreateVault(m, password, use_scrypt) ==
    LET salt == GeneratedSalts[vault.nsalts + 1]
        r == LoadVault(vault.mgr[m], vault.now, password, salt, TRUE, use_scrypt, None)
    IN /\ vault.nsalts < Len(GeneratedSalts)
       /\ vault' = [vault EXCEPT
             !.mgr[m] = r.mgr, !.nsalts = @ + 1,
             !.created = @ \cup {[password |-> password, use_scrypt |-> use_scrypt,
                                  salt |-> r.res.salt, verifier |-> r.res.verifier,
                                  bundle |-> r.mgr.keys]}]
       /\ last' = VaultCall("create_vault", m, r)
       /\ VaultFrame

\* load_vault(password, salt, use_scrypt, stored_verifier)
VmLoadVault(m, password, salt, use_scrypt, stored_verifier) ==
    LET r == LoadVault(vault.mgr[m], vault.now, password, salt, FALSE, use_scrypt,
                       stored_verifier)
    IN /\ vault' = [vault EXCEPT !.mgr[m] = r.mgr]
       /\ last' = VaultCall("load_vault", m, r) @@
                  [password |-> password, salt |-> salt, use_scrypt |-> use_scrypt,
                   stored_verifier |-> stored_verifier]
       /\ VaultFrame

\* unlock_with_master_key(k_master)
VmUnlockWithMasterKey(m, k_master) ==
    LET r == UnlockWithMasterKey(vault.mgr[m], vault.now, k_master)
    IN /\ vault' = [vault EXCEPT !.mgr[m] = r.mgr]
       /\ last' = VaultCall("unlock_with_master_key", m, r)
       /\ VaultFrame

\* lock_vault()
VmLockVault(m) ==
    LET r == LockVault(vault.mgr[m])
    IN /\ vault' = [vault EXCEPT !.mgr[m] = r.mgr]
       /\ last' = VaultCall("lock_vault", m, [res |-> None, released |-> r.released])
       /\ VaultFrame

\* check_inactivity_and_lock()
VmCheckInactivityAndLock(m) ==
    LET r == CheckInactivityAndLock(vault.mgr[m], vault.now)
    IN /\ vault' = [vault EXCEPT !.mgr[m] = r.mgr]
       /\ last' = VaultCall("check_inactivity_and_lock", m, r)
       /\ VaultFrame

\* get_keys()
VmGetKeys(m) ==
    LET r == GetKeys(vault.mgr[m], vault.now)
    IN /\ vault' = [vault EXCEPT !.mgr[m] = r.mgr]
       /\ last' = VaultCall("get_keys", m, r)
       /\ VaultFrame

\* get_k_master_for_compat()
VmGetKMasterForCompat(m) ==
    LET r == GetKMasterForCompat(vault.mgr[m], vault.now)
    IN /\ vault' = [vault EXCEPT !.mgr[m] = r.mgr]
       /\ last' = VaultCall("get_k_master_for_compat", m, r)
       /\ VaultFrame

\* HTTPException(status_code=403)
Forbidden == [raise |-> "HTTPException", status_code |-> 403]

\* a document route: require_vault_unlocked, then _get_sse_client builds an
\* SSEClient around a copy of the key
GetSseClient(mgr, now) ==
    IF ~IsUnlocked(mgr) THEN [mgr |-> mgr, released |-> {}, res |-> Forbidden]
    ELSE LET r == GetKMasterForCompat(mgr, now)
         IN IF r.res = None THEN [mgr |-> r.mgr, released |-> {}, res |-> Forbidden]
            ELSE [mgr |-> r.mgr, released |-> {}, res |-> [master_key |-> r.res]]

\* a request that needs the vault arrives
VmGetSseClient(m) ==
    LET r == GetSseClient(vault.mgr[m], vault.now)
    IN /\ vault' = [vault EXCEPT !.mgr[m] = r.mgr,
                                 !.client = IF r.res = Forbidden THEN @
                                            ELSE [m |-> m, master_key |-> r.res.master_key]]
       /\ last' = VaultCall("get_sse_client", m, r)
       /\ VaultFrame

\* SSEClient.search(query) on the client built last: the client holds its own
\* copy of the key and does not look at the vault
VmClientSearch(query) ==
    /\ vault.client # None
    /\ last' = [op |-> "client_search", m |-> vault.client.m, q |-> query,
                master_key |-> vault.client.master_key,
                state |-> vault.mgr[vault.client.m].state,
                res |-> ClientSearch(query)]
    /\ UNCHANGED <<vault, disk>>
    /\ VaultFrame

\* the salts and verifiers a caller can pass to load_vault
KnownSalts == {GeneratedSalts[i] : i \in 1..vault.nsalts} \cup {ShortSalt}
StoredVerifiers == {c.verifier : c \in vault.created}

\* the keys a caller can pass to unlock_with_master_key
KnownKeys == {ShortKey} \cup (IF vault.client = None THEN {} ELSE {vault.client.master_key})

\* the calls on manager m that unlock it, lock it or ask it for keys
VaultCalls(m, passwords, kdfs, verifiers) ==
    \/ \E password \in passwords, use_scrypt \in kdfs :
          VmCreateVault(m, password, use_scrypt)
    \/ \E password \in passwords, salt \in KnownSalts, use_scrypt \in kdfs,
          stored_verifier \in verifiers :
          VmLoadVault(m, password, salt, use_scrypt, stored_verifier)
    \/ VmLockVault(m)
    \/ VmGetKeys(m)

NextVault ==
    \/ Tick
    \/ \E m \in DOMAIN vault.mgr :
          \/ VaultCalls(m, {"password123"}, {TRUE}, StoredVerifiers \cup {None})
          \/ \E k_master \in KnownKeys : VmUnlockWithMasterKey(m, k_master)
          \/ VmCheckInactivityAndLock(m)
          \/ VmGetKMasterForCompat(m)
          \/ VmGetSseClient(m)
    \/ \E q \in Queries : VmClientSearch(q)

SpecVault == InitVault /\ [][NextVault]_vars

\* two VaultManagers without a timeout, given every password and KDF and the
\* verifiers stored when the vaults were created
InitUnlock == InitVaultWith({"m1", "m2"}, {None})

NextUnlock == \E m \in DOMAIN vault.mgr : VaultCalls(m, Passwords, BOOLEAN, StoredVerifiers)

SpecUnlock == InitUnlock /\ [][NextUnlock]_vars

VaultOps == {"create_vault", "load_vault", "unlock_with_master_key", "lock_vault",
             "check_inactivity_and_lock", "get_keys", "get_k_master_for_compat",
             "get_sse_client"}

UnlockOps == {"create_vault", "load_vault", "unlock_with_master_key"}

Raised(res) == "raise" \in DOMAIN res

\* C11: get_keys() hands out a bundle only while the manager is UNLOCKED; while
\* it is LOCKED both get_keys() and get_k_master_for_compat() return None, and
\* only an unlock that succeeds ends the LOCKED state.
C11_KeysOnlyWhileUnlocked ==
    /\ \A m \in DOMAIN vault.mgr :
          LET mgr == vault.mgr[m]
          IN /\ GetKeys(mgr, vault.now).res # None => mgr.state = "UNLOCKED"
             /\ mgr.state = "LOCKED" =>
                   /\ GetKeys(mgr, vault.now).res = None
                   /\ GetKMasterForCompat(mgr, vault.now).res = None
    /\ last.op \in {"get_keys", "get_k_master_for_compat"} /\ last.was = "LOCKED" =>
          last.res = None
    /\ last.op \in VaultOps /\ last.was = "LOCKED"
          /\ vault.mgr[last.m].state = "UNLOCKED" =>
          last.op \in UnlockOps /\ ~Raised(last.res)

\* a vault that was unlocked and has been idle past its timeout is locked, and
\* get_k_master_for_compat() then returns None
C11_Witness ==
    /\ last.op = "get_k_master_for_compat"
    /\ last.was = "LOCKED"
    /\ last.res = None
    /\ vault.mgr[last.m].salt # None
    /\ vault.mgr[last.m].timeout = Some(2)
    /\ vault.now >= 2

\* C12: for a vault created by load_vault(p, salt=None), a later
\* load_vault(p2, salt, stored_verifier=verifier) on any manager succeeds with
\* the bundle of the creation when p2 = p (and the KDF is the same), and
\* otherwise raises and leaves the manager's keys and state as they were.
C12_VerifierGatesUnlock ==
    [][last'.op = "load_vault" =>
          \A c \in vault.created :
              c.salt = last'.salt /\ c.verifier = last'.stored_verifier =>
                  LET m == last'.m
                  IN IF last'.password = c.password /\ last'.use_scrypt = c.use_scrypt
                     THEN /\ last'.res = [salt |-> c.salt]
                          /\ vault'.mgr[m].state = "UNLOCKED"
                          /\ vault'.mgr[m].keys = c.bundle
                          /\ GetKeys(vault'.mgr[m], vault'.now).res = c.bundle
                     ELSE /\ last'.res = ValueError("Invalid password")
                          /\ vault'.mgr[m].keys = vault.mgr[m].keys
                          /\ vault'.mgr[m].k_master_buf = vault.mgr[m].k_master_buf
                          /\ vault'.mgr[m].state = vault.mgr[m].state]_vars

\* the vault created on one manager is refused on the other with a wrong
\* password, and that manager stays LOCKED
C12_Witness ==
    /\ last.op = "load_vault"
    /\ last.m = "m2"
    /\ last.res = ValueError("Invalid password")
    /\ vault.mgr["m2"].state = "LOCKED"
    /\ vault.mgr["m1"].state = "UNLOCKED"
    /\ \E c \in vault.created :
          /\ c.salt = last.salt
          /\ c.verifier = last.stored_verifier
          /\ c.password # last.password
          /\ c.use_scrypt = last.use_scrypt
          /\ vault.mgr["m1"].keys = c.bundle

\* C13: lock_vault() leaves the manager LOCKED, its K_master buffer zeroed and
\* let go and its bundle dropped; on a LOCKED manager it changes nothing.
C13_LockZeroesAndIsIdempotent ==
    [][last'.op = "lock_vault" =>
          LET m == last'.m
              before == vault.mgr[m]
              after == vault'.mgr[m]
          IN /\ after.state = "LOCKED"
             /\ after.k_master_buf = None
             /\ after.keys = None
             /\ last'.res = None
             /\ last'.released = IF before.k_master_buf = None THEN {}
                                 ELSE {Zeros(before.k_master_buf.bytes.len)}
             /\ before.state = "LOCKED" => vault' = vault]_vars

\* lock_vault() on a manager that was unlocked and locked before
C13_Witness ==
    /\ last.op = "lock_vault"
    /\ last.was = "LOCKED"
    /\ last.released = {}
    /\ vault.mgr[last.m].salt # None

\* C14: check_inactivity_and_lock() locks and returns True exactly when the
\* manager is UNLOCKED, a positive timeout is set and now - last_activity >=
\* timeout; otherwise it returns False and changes nothing.
C14_InactivityLockExactly ==
    [][last'.op = "check_inactivity_and_lock" =>
          LET m == last'.m
              before == vault.mgr[m]
              due == /\ before.state = "UNLOCKED"
                     /\ before.timeout # None
                     /\ before.timeout.val > 0
                     /\ vault.now - before.last_activity >= before.timeout.val
          IN /\ last'.res = due
             /\ due => /\ vault'.mgr[m].state = "LOCKED"
                       /\ vault'.mgr[m].keys = None
                       /\ vault'.mgr[m].k_master_buf = None
             /\ ~due => vault' = vault]_vars

\* the timeout has elapsed and check_inactivity_and_lock() locked the vault
C14_Witness ==
    /\ last.op = "check_inactivity_and_lock"
    /\ last.res = TRUE
    /\ last.was = "UNLOCKED"
    /\ vault.mgr[last.m].state = "LOCKED"

\* C15: once the timeout has elapsed on an UNLOCKED vault, the next call that
\* asks it for keys locks it and hands out nothing.
C15_TouchAfterTimeoutLocks ==
    last.op \in {"get_keys", "get_k_master_for_compat", "get_sse_client"}
        /\ last.expired =>
            /\ last.res \in {None, Forbidden}
            /\ vault.mgr[last.m].state = "LOCKED"

\* C16: every buffer a manager lets go of has been overwritten with zeros.
C16_ReleasedBuffersAreZeroed ==
    last.op \in VaultOps => \A b \in last.released : b = Zeros(b.len)

\* C17: a client built while the vault was UNLOCKED starts no operation once
\* the vault is LOCKED.
C17_NoOperationWhileLocked ==
    last.op = "client_search" => last.state = "UNLOCKED"

(***************************************************************************)
(* Padded responses of the server's search.                                *)
(***************************************************************************)
\* the largest pad_to a search is given
MaxPad == 2

\* values os.urandom(16).hex() can give: fresh hex strings, and, a doc_id being
\* any string, the doc_ids themselves
DummyPool == <<"x1", "x2", "x3", "x4", "x5">>
UrandomPool == {DummyPool[i] : i \in 1..Min(MaxPad, Len(DummyPool))} \cup DocIds

\* random.shuffle(result): every order of the list is an outcome
Shuffles(S) ==
    {f \in [1..Cardinality(S) -> S] : \A i, j \in 1..Cardinality(S) : i # j => f[i] # f[j]}

\* mutant: the dummies are not tested against the stored documents nor the result
DummyCandidatesUntested(real, result) == UrandomPool

\* the dummies the padding loop accepts: not in real and not in the result
DummyCandidates(real, result) == UrandomPool \ (real \cup Range(result))

\* the padding block of search_multi: the lists it can return for a deduped
\* result, one per choice of the dummies and of the shuffle
PadOutcomes(result, pad_to) ==
    IF pad_to > 0 /\ Len(result) < pad_to
    THEN LET real == DOMAIN documents
             needed == pad_to - Len(result)
         IN UNION {Shuffles(Range(result) \cup D) :
                     D \in {X \in SUBSET DummyCandidates(real, result) :
                              Cardinality(X) = needed}}
    ELSE {result}

\* mutant: the result of the scan is padded without dict.fromkeys
SearchMultiPaddedNoDedupe(tokens, pad_to) ==
    PadOutcomes(SearchScan(IterEntries, tokens, <<>>), pad_to)

\* SSEServer.search_multi(tokens, pad_to): the lists it can return
SearchMultiPadded(tokens, pad_to) == PadOutcomes(SearchMulti(tokens), pad_to)

\* SSEServer.search(token, pad_to): the lists it can return
ServerSearchPadded(token, pad_to) == SearchMultiPadded(<<token>>, pad_to)

Tokens == {BuildTrapdoor(q) : q \in Queries}
TokenLists == {<<>>} \cup {<<t>> : t \in Tokens} \cup {<<t, u>> : t, u \in Tokens}
PadTos == 0..MaxPad

\* SSEServer.search_multi(tokens, pad_to)
CallSearchMulti(tokens, pad_to) ==
    /\ \E res \in SearchMultiPadded(tokens, pad_to) :
          last' = [op |-> "search_multi", tokens |-> tokens, pad_to |-> pad_to, res |-> res]
    /\ UNCHANGED <<serverVars, clientVars, hist, conc, vault, disk>>

\* SSEServer.search(token, pad_to)
CallSearch(token, pad_to) ==
    /\ \E res \in ServerSearchPadded(token, pad_to) :
          last' = [op |-> "search", tokens |-> <<token>>, pad_to |-> pad_to, res |-> res]
    /\ UNCHANGED <<serverVars, clientVars, hist, conc, vault, disk>>

NextPad ==
    \/ \E d \in DocIds, blob \in Blobs : UploadDocument(d, blob)
    \/ \E index \in IndexBatches : UploadIndex(index)
    \/ \E d \in DocIds : DeleteDocument(d)
    \/ \E tokens \in TokenLists, pad_to \in PadTos : CallSearchMulti(tokens, pad_to)
    \/ \E token \in Tokens, pad_to \in PadTos : CallSearch(token, pad_to)

SpecPad == Init /\ [][NextPad]_vars

SearchOps == {"search_multi", "search"}

\* the places <<i, j>> of iter_entries() where doc_id d stands in the list of
\* an entry whose token is byte-equal to one of the query tokens
SeenAt(tokens, d) ==
    {<<i, j>> \in (1..Len(IterEntries)) \X (1..Len(DocIdPool)) :
        /\ j <= Len(IterEntries[i].v)
        /\ IterEntries[i].v[j] = d
        /\ FromHex(IterEntries[i].k) \in Range(tokens)}

\* place p comes before place q in the scan
Before(p, q) == p[1] < q[1] \/ (p[1] = q[1] /\ p[2] < q[2])

\* the doc_ids matching one of the tokens
RealMatches(tokens) == {p[2] : p \in {x \in IndexPairs : FromHex(x[1]) \in Range(tokens)}}

\* the list holds exactly the real matches of the tokens, each once, in the
\* order the scan of iter_entries() first shows them
UnpaddedAnswer(res, tokens) ==
    /\ Range(res) = RealMatches(tokens)
    /\ NoDup(res)
    /\ \A x, y \in 1..Len(res) : x < y =>
          \E p \in SeenAt(tokens, res[x]) :
             \A q \in SeenAt(tokens, res[y]) : Before(p, q)

\* C18: search_multi(tokens, pad_to=0) returns exactly the doc_ids of the stored
\* pairs whose token is byte-equal to a query token, each once, in the order
\* iter_entries() first shows them; search(token, pad_to) returns what
\* search_multi([token], pad_to) can return.
C18_SearchMultiExactUnion ==
    /\ (last.op \in SearchOps /\ last.pad_to = 0) => UnpaddedAnswer(last.res, last.tokens)
    /\ last.op = "search" =>
          /\ Len(last.tokens) = 1
          /\ last.res \in SearchMultiPadded(last.tokens, last.pad_to)

\* an unpadded search with two tokens that returns two doc_ids, one of them
\* listed under both tokens
C18_Witness ==
    /\ last.op = "search_multi"
    /\ last.pad_to = 0
    /\ Len(last.tokens) = 2
    /\ Len(last.res) = 2
    /\ \E d \in Range(last.res) : Cardinality(SeenAt(last.tokens, d)) = 2

\* C19: when pad_to exceeds the number of real results the list has no
\* duplicate, has length exactly pad_to, contains every real match, and its
\* other entries are not in list_document_ids(); otherwise the real results
\* come back unpadded and in order.
C19_PaddingShape ==
    last.op \in SearchOps =>
        IF last.pad_to > Cardinality(RealMatches(last.tokens))
        THEN /\ NoDup(last.res)
             /\ Len(last.res) = last.pad_to
             /\ RealMatches(last.tokens) \subseteq Range(last.res)
             /\ (Range(last.res) \ RealMatches(last.tokens)) \cap ListDocumentIds = {}
        ELSE UnpaddedAnswer(last.res, last.tokens)

\* a padded answer of two entries that holds its one real match after a dummy,
\* with a document stored under a doc_id the search did not match
C19_Witness ==
    /\ last.op \in SearchOps
    /\ last.pad_to = 2
    /\ Cardinality(RealMatches(last.tokens)) = 1
    /\ last.res[2] \in RealMatches(last.tokens)
    /\ ListDocumentIds \ RealMatches(last.tokens) # {}

(***************************************************************************)
(* Padded searches of the client.                                          *)
(***************************************************************************)
\* the filter of search and search_forward_secure: applied only when pad_to > 0
\* and _known_doc_ids is not empty
StripPadding(raw, pad_to) ==
    IF pad_to > 0 /\ knownDocIds # {}
    THEN SelectSeq(raw, LAMBDA x : x \in knownDocIds)
    ELSE raw

\* SSEClient.search(query, pad_to): the lists it can return
ClientSearchPadded(query, pad_to) ==
    {StripPadding(raw, pad_to) :
        raw \in ServerSearchPadded(BuildTrapdoor(Lower(Strip(query))), pad_to)}

\* SSEClient.search_forward_secure(keyword_counter, query, pad_to): the lists it
\* can return
ClientSearchForwardSecurePadded(counter, query, pad_to) ==
    LET w == Lower(Strip(query))
        max_c == FnGet(counter, w, 0)
    IN IF max_c = 0 THEN {<<>>}
       ELSE {StripPadding(raw, pad_to) :
                raw \in SearchMultiPadded(FwdSearchTokens(counter, query), pad_to)}

\* SSEClient.search(query, pad_to)
SearchPadded(query, pad_to) ==
    /\ \E res \in ClientSearchPadded(query, pad_to) :
          last' = [op |-> "search", q |-> query, pad_to |-> pad_to, res |-> res,
                   fwd |-> FALSE]
    /\ UNCHANGED <<serverVars, clientVars, hist, conc, vault, disk>>

\* SSEClient.search_forward_secure(keyword_counter, query, pad_to)
SearchForwardSecurePadded(query, pad_to) ==
    /\ \E res \in ClientSearchForwardSecurePadded(keywordCounter, query, pad_to) :
          last' = [op |-> "search_fwd", q |-> query, pad_to |-> pad_to, res |-> res,
                   fwd |-> TRUE]
    /\ hist' = [hist EXCEPT !.sent = @ \cup Range(FwdSearchTokens(keywordCounter, query))]
    /\ UNCHANGED <<serverVars, clientVars, conc, vault, disk>>

\* one document per upload
OneDocBatches == {<<x>> : x \in ConcDocs}

NextStrip ==
    \/ \E docs \in OneDocBatches : \E ivs \in [1..Len(docs) -> IVs] :
          UploadDocuments(docs, ivs)
    \/ \E docs \in OneDocBatches : \E ivs \in [1..Len(docs) -> IVs] :
          UploadDocumentsForwardSecure(docs, ivs)
    \/ \E q \in Queries, pad_to \in PadTos : SearchPadded(q, pad_to)
    \/ \E q \in Queries, pad_to \in PadTos : SearchForwardSecurePadded(q, pad_to)

SpecStrip == Init /\ [][NextStrip]_vars

\* what the same call returns with pad_to = 0
UnpaddedClientAnswer ==
    IF last.fwd THEN ClientSearchForwardSecure(keywordCounter, last.q)
    ELSE ClientSearch(last.q)

\* C20: a padded client search returns the same set of doc_ids as the same call
\* with pad_to = 0: no synthetic doc_id is left in and no real match is left out.
C20_PaddingNeverChangesAnswer ==
    (last.op \in {"search", "search_fwd"} /\ last.pad_to > 0) =>
        Range(last.res) = Range(UnpaddedClientAnswer)

(***************************************************************************)
(* Substring search: the n-gram index and search_substring.                *)
(***************************************************************************)
\* extract_ngrams(text, n): the character n-grams of text.lower().strip(), the
\* whole text when it is shorter than n, nothing when it is empty
ExtractNgrams(text, n) ==
    LET t == Strip(Lower(text))
    IN IF Len(t) < n
       THEN (IF t # <<>> THEN <<t>> ELSE <<>>)
       ELSE [i \in 1..(Len(t) - n + 1) |-> SubSeq(t, i, i + n - 1)]

\* extract_ngrams_unique(text, n)
ExtractNgramsUnique(text, n) == Range(ExtractNgrams(text, n))

\* the loop of upload_documents_substring_index over (doc_id, plaintext); the
\* n-grams of a document are a set, iterated in the order orders gives
RECURSIVE BuildSubstringLoop(_, _, _)
BuildSubstringLoop(index, docs, orders) ==
    IF docs = <<>> THEN index
    ELSE BuildSubstringLoop(IndexKeywords(index, Head(orders), Head(docs)[1]),
                            Tail(docs), Tail(orders))

\* the index upload_documents_substring_index sends
BuildSubstringIndex(docs, orders) == DedupeIndex(BuildSubstringLoop(<<>>, docs, orders))

\* the orders in which the n-gram sets of the documents of a batch can be iterated
NgramOrders(docs, n) ==
    {o \in [1..Len(docs) -> UNION {Shuffles(ExtractNgramsUnique(docs[i][2], n)) :
                                      i \in 1..Len(docs)}] :
        \A i \in 1..Len(docs) : o[i] \in Shuffles(ExtractNgramsUnique(docs[i][2], n))}

\* the first token of the list that matches the stored key takes the entry
FirstMatch(tokens, stored) ==
    LET hits == {i \in 1..Len(tokens) : TokenMatches(tokens[i], stored)}
    IN IF hits = {} THEN 0 ELSE CHOOSE i \in hits : \A j \in hits : i <= j

\* the scan of search_multi_breakdown: an entry goes to the first token that
\* matches it (break)
RECURSIVE BreakdownScan(_, _, _)
BreakdownScan(entries, tokens, result) ==
    IF entries = <<>> THEN result
    ELSE LET i == FirstMatch(tokens, FromHex(Head(entries).k))
         IN BreakdownScan(Tail(entries), tokens,
                          IF i = 0 THEN result
                          ELSE [result EXCEPT ![i] = Dedupe(@ \o Head(entries).v)])

\* SSEServer.search_multi_breakdown(tokens)
SearchMultiBreakdown(tokens) ==
    BreakdownScan(IterEntries, tokens, [i \in 1..Len(tokens) |-> <<>>])

\* SSEClient.search_substring(query, n, pad_to): the set of doc_ids of the list
\* it returns, ngs being the n-grams of the query in the order they are iterated
ClientSearchSubstring(ngs, pad_to) ==
    IF ngs = <<>> THEN {}
    ELSE LET tokens == [i \in 1..Len(ngs) |-> BuildTrapdoor(ngs[i])]
             per_token == SearchMultiBreakdown(tokens)
             result == {d \in Range(per_token[1]) :
                           \A i \in 1..Len(per_token) : d \in Range(per_token[i])}
         IN IF pad_to > 0 /\ knownDocIds # {} THEN result \cap knownDocIds ELSE result

\* n of upload_documents_substring_index and search_substring
NgramSizes == {2, 3}

\* SSEClient.upload_documents_substring_index(docs, n)
UploadDocumentsSubstringIndex(docs, n) ==
    /\ \E orders \in NgramOrders(docs, n) :
          LET index == BuildSubstringIndex(docs, orders)
          IN BackendWrite(JsonAddBatch(jsonIndex, index), SqlAddBatch(sqlRows, index))
    /\ knownDocIds' = knownDocIds \cup BatchIds(docs)
    /\ last' = [op |-> "upload_substring", n |-> n, k |-> Len(docs)]
    /\ hist' = [hist EXCEPT !.sub = @ \cup {[d |-> docs[i][1], text |-> docs[i][2], n |-> n] :
                                              i \in 1..Len(docs)}]
    /\ UNCHANGED <<documents, docFiles, keywordCounter, conc, vault, disk>>

\* SSEClient.search_substring(query, n, pad_to); list(set) gives the doc_ids in
\* any order
SearchSubstring(query, n, pad_to) ==
    /\ \E ngs \in Shuffles(ExtractNgramsUnique(Lower(Strip(query)), n)) :
       \E res \in Shuffles(ClientSearchSubstring(ngs, pad_to)) :
          last' = [op |-> "search_substring", q |-> query, n |-> n, pad_to |-> pad_to,
                   res |-> res]
    /\ UNCHANGED <<serverVars, clientVars, hist, conc, vault, disk>>

SubstringQueries == Queries \cup Texts \cup {<<>>}

NextSubstring ==
    \/ \E docs \in ConcBatches, n \in NgramSizes : UploadDocumentsSubstringIndex(docs, n)
    \/ \E docs \in OneDocBatches : \E ivs \in [1..Len(docs) -> IVs] :
          UploadDocuments(docs, ivs)
    \/ \E q \in SubstringQueries, n \in NgramSizes, pad_to \in {0, 1} :
          SearchSubstring(q, n, pad_to)

SpecSubstring == Init /\ [][NextSubstring]_vars

\* q is a contiguous part of text
Contains(text, q) ==
    \E i \in 0..(Len(text) - Len(q)) : SubSeq(text, i + 1, i + Len(q)) = q

\* the doc_ids stored under the token of every n-gram of the normalized query
StoredUnderEveryNgram(q, n) ==
    {d \in {p[2] : p \in IndexPairs} :
        \A ng \in ExtractNgramsUnique(q, n) : <<Hex(BuildTrapdoor(ng)), d>> \in IndexPairs}

\* C21: search_substring(q, n) returns exactly the doc_ids stored under every
\* n-gram token of strip+lowercase(q), and [] for an empty query; so every
\* document indexed by upload_documents_substring_index with the same n whose
\* normalized text contains q (len(q) >= n) is in the result.
C21_SubstringIsIntersection ==
    (last.op = "search_substring" /\ last.pad_to = 0) =>
        LET q == Lower(Strip(last.q))
        IN /\ q = <<>> => last.res = <<>>
           /\ q # <<>> => Range(last.res) = StoredUnderEveryNgram(q, last.n)
           /\ \A e \in hist.sub :
                 (e.n = last.n /\ Len(q) >= last.n /\ Contains(Strip(Lower(e.text)), q))
                    => e.d \in Range(last.res)

(***************************************************************************)
(* The two backends compared after the same calls.                         *)
(***************************************************************************)
\* the tokens iter_entries() yields, and the doc_ids it yields for a token
EntryKeys(entries) == {entries[i].k : i \in 1..Len(entries)}
EntryDocIds(entries, key_hex) ==
    UNION {Range(entries[i].v) : i \in {j \in 1..Len(entries) : entries[j].k = key_hex}}

\* C22: after the same sequence of add, add_batch and remove_doc_id, the JSON
\* and the SQLite backend yield the same set of tokens and, for each token, the
\* same set of doc_ids.
C22_BackendsAgree ==
    /\ EntryKeys(JsonIterEntries(jsonIndex)) = EntryKeys(SqlIterEntries(sqlRows))
    /\ \A k \in EntryKeys(JsonIterEntries(jsonIndex)) :
          EntryDocIds(JsonIterEntries(jsonIndex), k) = EntryDocIds(SqlIterEntries(sqlRows), k)

(***************************************************************************)
(* The index files of a storage directory: index.json as a JsonIndexBackend *)
(* saves it, write by write, and its migration to index.db.                *)
(*                                                                         *)
(* disk.json is "missing", "ok" (a complete JSON object, held in jsonFile) *)
(* or "torn" (jsonFile holds the entries written so far; the text does not *)
(* parse).  disk.proc is the process that owns the JsonIndexBackend, which  *)
(* is in use until the directory is opened with SQLite; disk.prev is the   *)
(* file as it was when the save under way began.                           *)
(***************************************************************************)
InitDisk ==
    /\ documents = EmptyFn
    /\ docFiles = EmptyFn
    /\ backendKind = "json"
    /\ jsonIndex = <<>>
    /\ jsonFile = <<>>
    /\ sqlRows = {}
    /\ knownDocIds = {}
    /\ keywordCounter = EmptyFn
    /\ last = [op |-> "init"]
    /\ hist = InitHist
    /\ conc = NoThreads
    /\ vault = NoVaults
    /\ disk = [json |-> "missing", db |-> FALSE, bak |-> None, proc |-> "idle",
               prev |-> [json |-> "missing", file |-> <<>>]]

DiskFrame ==
    UNCHANGED <<documents, docFiles, backendKind, knownDocIds, keywordCounter, hist,
                conc, vault>>

\* a call of the JsonIndexBackend changes the dict in memory and enters _save
JsonCall(op, newIndex) ==
    /\ disk.proc = "idle"
    /\ ~disk.db
    /\ jsonIndex' = newIndex
    /\ disk' = [disk EXCEPT !.proc = "save", !.prev = [json |-> disk.json, file |-> jsonFile]]
    /\ last' = [op |-> op]
    /\ UNCHANGED <<jsonFile, sqlRows>>
    /\ DiskFrame

\* JsonIndexBackend.add, up to its call of _save
JsonCallAdd(key_hex, doc_ids) == JsonCall("add", JsonAdd(jsonIndex, key_hex, doc_ids))

\* JsonIndexBackend.add_batch, up to its call of _save
JsonCallAddBatch(index) == JsonCall("add_batch", JsonAddBatch(jsonIndex, index))

\* JsonIndexBackend.remove_doc_id, up to its call of _save
JsonCallRemoveDocId(doc_id) == JsonCall("remove_doc_id", JsonRemoveDocId(jsonIndex, doc_id))

\* _save: open(self._path, "w") creates the file or truncates it to nothing
SaveOpen ==
    /\ disk.proc = "save"
    /\ jsonFile' = <<>>
    /\ disk' = [disk EXCEPT !.proc = "write", !.json = "torn"]
    /\ last' = [op |-> "save_open"]
    /\ UNCHANGED <<jsonIndex, sqlRows>>
    /\ DiskFrame

\* _save: json.dump writes the next entry of the dict
SaveWrite ==
    /\ disk.proc = "write"
    /\ Len(jsonFile) < Len(jsonIndex)
    /\ jsonFile' = Append(jsonFile, jsonIndex[Len(jsonFile) + 1])
    /\ last' = [op |-> "save_write"]
    /\ UNCHANGED <<jsonIndex, sqlRows, disk>>
    /\ DiskFrame

\* _save: json.dump writes the closing brace and the with block closes the file
SaveClose ==
    /\ disk.proc = "write"
    /\ Len(jsonFile) = Len(jsonIndex)
    /\ disk' = [disk EXCEPT !.proc = "idle", !.json = "ok",
                             !.prev = [json |-> "ok", file |-> jsonFile]]
    /\ last' = [op |-> "save_close"]
    /\ UNCHANGED <<jsonIndex, jsonFile, sqlRows>>
    /\ DiskFrame

\* the process stops during a save
Crash ==
    /\ disk.proc \in {"save", "write"}
    /\ disk' = [disk EXCEPT !.proc = "stopped"]
    /\ last' = [op |-> "crash"]
    /\ UNCHANGED <<jsonIndex, jsonFile, sqlRows>>
    /\ DiskFrame

\* JsonIndexBackend.__init__ of the next process: json.load of the file, when
\* there is one; a file that does not parse raises
JsonOpen ==
    /\ disk.proc = "stopped"
    /\ IF disk.json = "torn"
       THEN /\ last' = [op |-> "open_json", res |-> [raise |-> "JSONDecodeError"]]
            /\ UNCHANGED <<jsonIndex, disk>>
       ELSE /\ jsonIndex' = (IF disk.json = "ok" THEN jsonFile ELSE <<>>)
            /\ disk' = [disk EXCEPT !.proc = "idle",
                                     !.prev = [json |-> disk.json, file |-> jsonFile]]
            /\ last' = [op |-> "open_json", res |-> None]
    /\ UNCHANGED <<jsonFile, sqlRows>>
    /\ DiskFrame

\* SqliteIndexBackend.__init__: sqlite3.connect creates index.db
SqliteOpen ==
    /\ disk.proc \in {"idle", "stopped"}
    /\ disk' = [disk EXCEPT !.db = TRUE]
    /\ last' = [op |-> "open_sqlite"]
    /\ UNCHANGED <<jsonIndex, jsonFile, sqlRows>>
    /\ DiskFrame

\* migrate_json_to_sqlite(storage_dir): what it returns and leaves on disk;
\* rows are the rows of the index.db it creates
MigrateOutcome(d, file) ==
    IF d.json = "missing" \/ d.db \/ d.json = "torn"
    THEN [res |-> FALSE, disk |-> d, file |-> file, rows |-> {}]
    ELSE [res |-> TRUE,
          disk |-> [d EXCEPT !.db = TRUE, !.json = "missing", !.bak = Some(file)],
          file |-> <<>>, rows |-> SqlAddBatch({}, file)]

\* migrate_json_to_sqlite(storage_dir), called while no save is under way
MigrateJsonToSqlite ==
    LET r == MigrateOutcome(disk, jsonFile)
    IN /\ disk.proc \in {"idle", "stopped"}
       /\ disk' = r.disk
       /\ jsonFile' = r.file
       /\ sqlRows' = (IF r.res THEN r.rows ELSE sqlRows)
       /\ last' = [op |-> "migrate", res |-> r.res, json |-> disk.json, db |-> disk.db]
       /\ UNCHANGED jsonIndex
       /\ DiskFrame

NextDisk ==
    \/ \E key_hex \in HexKeys, doc_ids \in IdLists : JsonCallAdd(key_hex, doc_ids)
    \/ \E index \in IndexBatches : JsonCallAddBatch(index)
    \/ \E d \in DocIds : JsonCallRemoveDocId(d)
    \/ SaveOpen
    \/ SaveWrite
    \/ SaveClose
    \/ Crash
    \/ JsonOpen
    \/ SqliteOpen
    \/ MigrateJsonToSqlite

SpecDisk == InitDisk /\ [][NextDisk]_vars

\* C23: when index.json exists and index.db does not, migrate_json_to_sqlite
\* makes the SQLite backend's iter_entries() identical to the JSON backend's,
\* renames index.json to index.json.bak and returns True; otherwise it changes
\* nothing and returns False.
C23_MigrationIdentical ==
    [][last'.op = "migrate" =>
          IF disk.json # "missing" /\ ~disk.db
          THEN /\ last'.res = TRUE
               /\ SqlIterEntries(sqlRows') = JsonIterEntries(jsonFile)
               /\ disk'.json = "missing"
               /\ disk'.bak = Some(jsonFile)
          ELSE /\ last'.res = FALSE
               /\ UNCHANGED <<jsonFile, sqlRows, disk>>]_vars

\* C24: if the process stops during a save, index.json holds the complete
\* previous index or the complete new one, never a torn or partial one.
C24_JsonSaveAtomic ==
    disk.proc = "stopped" =>
        \/ disk.json = disk.prev.json /\ jsonFile = disk.prev.file
        \/ disk.json = "ok" /\ jsonFile = jsonIndex

(***************************************************************************)
(* The stored index altered behind the client's back, then searched and    *)
(* checked.                                                                *)
(***************************************************************************)
\* IndexService.verify_integrity(k_index_mac): answers True, with or without
\* the key
VerifyIntegrity(k_index_mac) == TRUE

\* the (token_hex, doc_id) pairs the client's uploads put in the index for the
\* documents now stored
UploadedPairs ==
    UNION {{<<Hex(BuildTrapdoor(w)), d>> :
               w \in Range(ExtractKeywords(DecryptDocument(documents[d])))} :
           d \in DOMAIN documents}

\* whoever holds the storage directory puts a doc_id under a token of the index
AlterAdd(key_hex, doc_id) ==
    /\ <<key_hex, doc_id>> \notin IndexPairs
    /\ BackendWrite(JsonAdd(jsonIndex, key_hex, <<doc_id>>), SqlAdd(sqlRows, key_hex, <<doc_id>>))
    /\ last' = [op |-> "alter"]
    /\ UNCHANGED <<documents, docFiles, clientVars, hist, conc, vault, disk>>

\* whoever holds the storage directory takes a doc_id out of every token
AlterRemove(doc_id) ==
    /\ \E p \in IndexPairs : p[2] = doc_id
    /\ BackendWrite(JsonRemoveDocId(jsonIndex, doc_id), SqlRemoveDocId(sqlRows, doc_id))
    /\ last' = [op |-> "alter"]
    /\ UNCHANGED <<documents, docFiles, clientVars, hist, conc, vault, disk>>

\* SSEClient.search(query) over the index as it now is
SearchStored(query) ==
    /\ last' = [op |-> "search", q |-> query, res |-> ClientSearch(query), raised |-> FALSE]
    /\ UNCHANGED <<serverVars, clientVars, hist, conc, vault, disk>>

\* IndexService.verify_integrity(k_index_mac)
CallVerifyIntegrity(k_index_mac) ==
    /\ last' = [op |-> "verify_integrity", res |-> VerifyIntegrity(k_index_mac),
                raised |-> FALSE]
    /\ UNCHANGED <<serverVars, clientVars, hist, conc, vault, disk>>

\* the keys verify_integrity may be given
IndexMacKeys == {None, Some("k_index_mac")}

NextAltered ==
    \/ \E docs \in OneDocBatches : \E ivs \in [1..Len(docs) -> IVs] : UploadDocuments(docs, ivs)
    \/ \E d \in DocIds : DeleteDocument(d)
    \/ \E k \in HexKeys, d \in DocIds : AlterAdd(k, d)
    \/ \E d \in DocIds : AlterRemove(d)
    \/ \E q \in Queries : SearchStored(q)
    \/ \E k \in IndexMacKeys : CallVerifyIntegrity(k)

SpecAltered == Init /\ [][NextAltered]_vars

\* the doc_ids stored under a token in a set of (token_hex, doc_id) pairs
DocIdsUnder(pairs, key_hex) == {p[2] : p \in {x \in pairs : x[1] = key_hex}}

\* the index holds what the client's uploads and deletes left in it
IndexAsUploaded == IndexPairs = UploadedPairs

\* C25: when an index entry stored on the server has been altered (a doc_id
\* added, removed or changed under a token), a search over that entry and an
\* integrity check report the tampering instead of returning results.
C25_TamperingReported ==
    /\ (/\ last.op = "search"
        /\ DocIdsUnder(IndexPairs, Hex(BuildTrapdoor(last.q)))
              # DocIdsUnder(UploadedPairs, Hex(BuildTrapdoor(last.q))))
          => last.raised
    /\ (last.op = "verify_integrity" /\ ~IndexAsUploaded) => last.raised

(***************************************************************************)
(* File payloads: AES-256-GCM as an ideal authenticated cipher over byte   *)
(* sequences.  A nonce byte is a number; a ciphertext byte and a tag byte  *)
(* are symbolic, with the amount a later change added to them in "flip".   *)
(***************************************************************************)
GCM_NONCE_SIZE == 12
GCM_TAG_SIZE == 16
AES256_KEY_SIZE == 32

\* a key: its name and its length in bytes
FileKeys == {[name |-> "k1", len |-> 32], [name |-> "k2", len |-> 32], [name |-> "k16", len |-> 16]}

\* get_random_bytes(GCM_NONCE_SIZE): the nonces drawn
NumNonces == 2
FileNonces == {[i \in 1..GCM_NONCE_SIZE |-> (i * n) % 256] : n \in 0..(NumNonces - 1)}

\* the plaintexts, as bytes
FilePlaintexts == {EncodeUtf8(t) : t \in Texts} \cup {<<>>}

\* cipher.encrypt_and_digest(plaintext): byte j of the ciphertext under a key
\* and a nonce, and the 16 bytes of the tag over key, nonce and ciphertext
GcmEncrypt(k, nonce, plaintext) ==
    [j \in 1..Len(plaintext) |-> [k |-> k.name, nonce |-> nonce, j |-> j, p |-> plaintext[j], flip |-> 0]]
GcmDigest(k, nonce, ciphertext) ==
    [i \in 1..GCM_TAG_SIZE |-> [tag |-> i, k |-> k.name, nonce |-> nonce, ct |-> ciphertext, flip |-> 0]]

\* the byte the keystream of (k, nonce) at place j turns a ciphertext byte
\* into: the plaintext byte plus what was added since, or some other byte under
\* another keystream
GcmDecryptByte(k, nonce, j, c) ==
    IF c.k = k.name /\ c.nonce = nonce /\ c.j = j
    THEN (c.p + c.flip) % 256
    ELSE (c.p + c.j + j + 1) % 256
GcmDecrypt(k, nonce, ciphertext) ==
    [j \in 1..Len(ciphertext) |-> GcmDecryptByte(k, nonce, j, ciphertext[j])]

\* mutant: the plaintext is returned without the tag being compared
GcmDecryptUnverified(k, nonce, ciphertext, tag) ==
    [ok |-> TRUE, val |-> GcmDecrypt(k, nonce, ciphertext)]

\* cipher.decrypt_and_verify(ciphertext, tag): ValueError("MAC check failed")
\* unless the tag is the digest of the ciphertext under the key and nonce
GcmDecryptAndVerify(k, nonce, ciphertext, tag) ==
    IF tag = GcmDigest(k, nonce, ciphertext)
    THEN [ok |-> TRUE, val |-> GcmDecrypt(k, nonce, ciphertext)]
    ELSE [ok |-> FALSE, raise |-> "ValueError"]

\* encrypt_file_content(plaintext, k_file_enc, metadata=None) with the nonce drawn
EncryptFileContent(plaintext, k, nonce) ==
    IF k.len # AES256_KEY_SIZE
    THEN [ok |-> FALSE, raise |-> "ValueError"]
    ELSE LET ciphertext == GcmEncrypt(k, nonce, plaintext)
         IN [ok |-> TRUE, payload |-> ciphertext \o GcmDigest(k, nonce, ciphertext), nonce |-> nonce]

\* decrypt_file_content(nonce, payload, k_file_enc, metadata=None)
DecryptFileContent(nonce, payload, k) ==
    IF k.len # AES256_KEY_SIZE THEN [ok |-> FALSE, raise |-> "ValueError"]
    ELSE IF Len(nonce) # GCM_NONCE_SIZE THEN [ok |-> FALSE, raise |-> "ValueError"]
    ELSE IF Len(payload) < GCM_TAG_SIZE THEN [ok |-> FALSE, raise |-> "ValueError"]
    ELSE GcmDecryptAndVerify(k, nonce,
                             SubSeq(payload, 1, Len(payload) - GCM_TAG_SIZE),
                             SubSeq(payload, Len(payload) - GCM_TAG_SIZE + 1, Len(payload)))

\* encrypt_file_payload(plaintext, k_file_enc) with the nonce drawn
EncryptFilePayload(plaintext, k, nonce) ==
    LET r == EncryptFileContent(plaintext, k, nonce)
    IN IF r.ok THEN [ok |-> TRUE, val |-> r.nonce \o r.payload] ELSE r

\* decrypt_file_payload(blob, k_file_enc)
DecryptFilePayload(blob, k) ==
    IF Len(blob) < GCM_NONCE_SIZE + GCM_TAG_SIZE
    THEN [ok |-> FALSE, raise |-> "ValueError"]
    ELSE DecryptFileContent(SubSeq(blob, 1, GCM_NONCE_SIZE),
                            SubSeq(blob, GCM_NONCE_SIZE + 1, Len(blob)), k)

\* the amounts a changed byte differs by from the byte it replaces (mod 256)
ByteDeltas == {1, 255}

\* a blob with the byte at place pos changed by delta
ChangeByte(blob, pos, delta) ==
    IF pos <= GCM_NONCE_SIZE
    THEN [blob EXCEPT ![pos] = (@ + delta) % 256]
    ELSE [blob EXCEPT ![pos] = [@ EXCEPT !.flip = (@ + delta) % 256]]

FileFrame ==
    UNCHANGED <<serverVars, clientVars, hist, conc, vault, disk>>

\* blob = encrypt_file_payload(pt, k)
CallEncryptFilePayload(pt, k, nonce) ==
    LET r == EncryptFilePayload(pt, k, nonce)
    IN /\ last.op \in {"init", "decrypt_file_payload"}
       /\ last' = IF r.ok
                  THEN [op |-> "encrypt_file_payload", pt |-> pt, k |-> k, blob |-> r.val,
                        changed |-> 0]
                  ELSE [op |-> "init"]
       /\ FileFrame

\* one byte of the blob is changed
ChangeBlob(delta) ==
    /\ last.op = "encrypt_file_payload"
    /\ last.changed = 0
    /\ \E pos \in 1..Len(last.blob) :
          last' = [last EXCEPT !.blob = ChangeByte(@, pos, delta), !.changed = pos]
    /\ FileFrame

\* decrypt_file_payload(blob, k)
CallDecryptFilePayload(k) ==
    /\ last.op = "encrypt_file_payload"
    /\ last' = [op |-> "decrypt_file_payload", pt |-> last.pt, k |-> last.k, k2 |-> k,
                changed |-> last.changed, res |-> DecryptFilePayload(last.blob, k)]
    /\ FileFrame

NextFile ==
    \/ \E pt \in FilePlaintexts, k \in FileKeys, nonce \in FileNonces :
          CallEncryptFilePayload(pt, k, nonce)
    \/ \E delta \in ByteDeltas : ChangeBlob(delta)
    \/ \E k \in FileKeys : CallDecryptFilePayload(k)

SpecFile == Init /\ [][NextFile]_vars

\* C26: decrypt_file_payload(encrypt_file_payload(pt, k), k) = pt for every
\* plaintext and 32-byte key, and a blob with any one byte of its nonce,
\* ciphertext or tag changed makes decrypt_file_payload raise, returning no
\* plaintext.
C26_FilePayloadRoundTrip ==
    (last.op = "decrypt_file_payload" /\ last.k2 = last.k) =>
        IF last.changed = 0
        THEN last.res.ok /\ last.res.val = last.pt
        ELSE ~last.res.ok /\ "val" \notin DOMAIN last.res

\* a blob of a non-empty plaintext whose last byte, the last of the tag, was
\* changed has been refused under the key that made it
C26_Witness ==
    /\ last.op = "decrypt_file_payload"
    /\ last.k2 = last.k
    /\ last.changed = GCM_NONCE_SIZE + Len(last.pt) + GCM_TAG_SIZE
    /\ Len(last.pt) > 0
    /\ ~last.res.ok

(***************************************************************************)
(* Stored documents as bytes: the payload encrypt_document builds, a file  *)
(* of the documents directory changed from outside, and retrieval.         *)
(***************************************************************************)
IV_SIZE == 16
TAG_SIZE == 16

\* keys.k_enc of the client's key bundle
K_enc == [name |-> "k_enc", len |-> 32]

\* get_random_bytes(IV_SIZE): the bytes of the iv drawn
IvBytes(iv) == [i \in 1..IV_SIZE |-> (i * iv) % 256]

\* payload[a:b] of Python, for 0 <= a <= b
PySlice(s, a, b) == SubSeq(s, a + 1, Min(b, Len(s)))

\* encrypt_document: payload = iv + tag + ciphertext
EncryptDocumentPayload(plaintext, iv) ==
    LET nonce == IvBytes(iv)
        ciphertext == GcmEncrypt(K_enc, nonce, EncodeUtf8(plaintext))
    IN nonce \o GcmDigest(K_enc, nonce, ciphertext) \o ciphertext

\* a payload with the byte at place pos changed by delta
ChangePayloadByte(payload, pos, delta) ==
    IF pos <= IV_SIZE
    THEN [payload EXCEPT ![pos] = (@ + delta) % 256]
    ELSE [payload EXCEPT ![pos] = [@ EXCEPT !.flip = (@ + delta) % 256]]

\* the bytes of a stored blob: the payload of its upload, with the change made
\* to the file since ("mod"), if any
BlobBytes(blob) ==
    LET payload == EncryptDocumentPayload(blob.ct, blob.iv)
    IN IF "mod" \notin DOMAIN blob THEN payload
       ELSE IF blob.mod.kind = "byte"
            THEN ChangePayloadByte(payload, blob.mod.pos, blob.mod.delta)
            ELSE SubSeq(payload, 1, blob.mod.len)

\* mutant: the payload is read as iv, ciphertext, tag
DecryptDocumentTagLast(payload) ==
    LET iv == PySlice(payload, 0, IV_SIZE)
        tag == PySlice(payload, Len(payload) - TAG_SIZE, Len(payload))
        ciphertext == PySlice(payload, IV_SIZE, Len(payload) - TAG_SIZE)
    IN IF iv = <<>> THEN [ok |-> FALSE, raise |-> "ValueError"]
       ELSE GcmDecryptAndVerify(K_enc, iv, ciphertext, tag)

\* decrypt_document(payload, master_key) on bytes: AES.new refuses an empty
\* nonce, decrypt_and_verify a tag that does not match
DecryptDocumentPayload(payload) ==
    LET iv == PySlice(payload, 0, IV_SIZE)
        tag == PySlice(payload, IV_SIZE, IV_SIZE + TAG_SIZE)
        ciphertext == PySlice(payload, IV_SIZE + TAG_SIZE, Len(payload))
    IN IF iv = <<>> THEN [ok |-> FALSE, raise |-> "ValueError"]
       ELSE GcmDecryptAndVerify(K_enc, iv, ciphertext, tag)

\* SSEClient.retrieve_and_decrypt(doc_id)
RetrieveAndDecryptBytes(doc_id) ==
    LET ct == GetDocument(doc_id)
    IN IF ct = None THEN None ELSE DecryptDocumentPayload(BlobBytes(ct))

StoredFrame ==
    UNCHANGED <<backendKind, jsonIndex, jsonFile, sqlRows, clientVars, hist, conc, vault, disk>>

\* a byte of the file documents/<doc_id> is overwritten from outside
OverwriteFileByte(doc_id, delta) ==
    /\ doc_id \in DOMAIN docFiles
    /\ "mod" \notin DOMAIN docFiles[doc_id]
    /\ \E pos \in 1..Len(BlobBytes(docFiles[doc_id])) :
          docFiles' = [docFiles EXCEPT ![doc_id] =
                          [iv |-> @.iv, ct |-> @.ct,
                           mod |-> [kind |-> "byte", pos |-> pos, delta |-> delta]]]
    /\ last' = [op |-> "overwrite", doc_id |-> doc_id]
    /\ UNCHANGED documents
    /\ StoredFrame

\* the file documents/<doc_id> is cut short from outside
TruncateFile(doc_id) ==
    /\ doc_id \in DOMAIN docFiles
    /\ "mod" \notin DOMAIN docFiles[doc_id]
    /\ \E n \in 0..(Len(BlobBytes(docFiles[doc_id])) - 1) :
          docFiles' = [docFiles EXCEPT ![doc_id] =
                          [iv |-> @.iv, ct |-> @.ct, mod |-> [kind |-> "cut", len |-> n]]]
    /\ last' = [op |-> "truncate", doc_id |-> doc_id]
    /\ UNCHANGED documents
    /\ StoredFrame

\* SSEServer(storage_dir): a server object over the directory, _load_documents
\* reading every file into _documents; the client then talks to it
OpenServer ==
    /\ documents' = docFiles
    /\ last' = [op |-> "open"]
    /\ UNCHANGED docFiles
    /\ StoredFrame

\* SSEClient.retrieve_and_decrypt(doc_id), with list_document_ids() after it
CallRetrieveAndDecrypt(doc_id) ==
    /\ last' = [op |-> "retrieve_and_decrypt", doc_id |-> doc_id,
                res |-> RetrieveAndDecryptBytes(doc_id),
                listed |-> doc_id \in ListDocumentIds]
    /\ UNCHANGED <<documents, docFiles>>
    /\ StoredFrame

NextStored ==
    \/ \E docs \in OneDocBatches : \E ivs \in [1..Len(docs) -> IVs] : UploadDocuments(docs, ivs)
    \/ \E d \in DocIds : DeleteDocument(d)
    \/ \E d \in DocIds, delta \in ByteDeltas : OverwriteFileByte(d, delta)
    \/ \E d \in DocIds : TruncateFile(d)
    \/ OpenServer
    \/ \E d \in DocIds : CallRetrieveAndDecrypt(d)

SpecStored == Init /\ [][NextStored]_vars

\* the file of a stored document differs from what was uploaded
FileModified(doc_id) == doc_id \in DOMAIN docFiles /\ "mod" \in DOMAIN docFiles[doc_id]

\* C27 as stated: if the stored file of a document is modified,
\* retrieve_and_decrypt(doc_id) fails with an error and returns no plaintext
\* while the doc_id is still listed; for a doc_id not stored it reports not
\* found.
C27_ModifiedFileRefused ==
    last.op = "retrieve_and_decrypt" =>
        /\ FileModified(last.doc_id) => Raised(last.res) /\ last.listed
        /\ last.doc_id \notin DOMAIN docFiles => last.res = None

\* C27 amended: retrieve_and_decrypt(doc_id) raises and returns no plaintext,
\* with the doc_id still listed, when the server object in use loaded the
\* modified file; a server object that loaded the file before it was modified
\* still answers with the plaintext uploaded; for a doc_id not stored the
\* answer is None.
C27_LoadedModifiedFileRefused ==
    last.op = "retrieve_and_decrypt" =>
        LET d == last.doc_id
        IN /\ (d \in DOMAIN documents /\ "mod" \in DOMAIN documents[d]) =>
                 Raised(last.res) /\ last.listed
           /\ (d \in DOMAIN documents /\ "mod" \notin DOMAIN documents[d]) =>
                 /\ last.res.ok
                 /\ last.res.val = EncodeUtf8(documents[d].ct)
           /\ d \notin DOMAIN documents => last.res = None /\ ~last.listed

\* the last byte of a file was overwritten, a server object opened after that,
\* and retrieval through it raised with the doc_id listed
C27_Witness ==
    /\ last.op = "retrieve_and_decrypt"
    /\ last.doc_id \in DOMAIN documents
    /\ "mod" \in DOMAIN documents[last.doc_id]
    /\ documents[last.doc_id].mod.kind = "byte"
    /\ documents[last.doc_id].mod.pos = Len(BlobBytes(documents[last.doc_id]))
    /\ Raised(last.res)
    /\ last.listed

(***************************************************************************)
(* The layout of the blobs upload_documents stores.                        *)
(***************************************************************************)
\* C28: every document blob an upload stores for a plaintext of N bytes is a
\* 12-byte nonce, then the N bytes of ciphertext, then the 16-byte tag, so its
\* length is N + 28.
C28_BlobLayout ==
    \A d \in DOMAIN documents :
        LET payload == BlobBytes(documents[d])
            plaintext == EncodeUtf8(DecryptDocument(documents[d]))
            N == Len(plaintext)
            nonce == SubSeq(payload, 1, 12)
            ciphertext == GcmEncrypt(K_enc, nonce, plaintext)
        IN /\ Len(payload) = N + 28
           /\ SubSeq(payload, 13, 12 + N) = ciphertext
           /\ SubSeq(payload, 13 + N, N + 28) = GcmDigest(K_enc, nonce, ciphertext)

(***************************************************************************)
(* Stored documents from one server call to the next.                      *)
(***************************************************************************)
\* C29: a stored document is never mutated: from upload_document(d, blob) on,
\* get_document(d) returns that blob until d is deleted, whatever runs in
\* between, another upload for the same doc_id included.
C29_StoredNeverMutated ==
    [][\A d \in DOMAIN documents :
          d \in DOMAIN documents' =>
              FnGet(documents', d, None) = FnGet(documents, d, None)]_vars

(***************************************************************************)
(* search_multi_breakdown called on the server.                            *)
(***************************************************************************)
\* SSEServer.search_multi_breakdown(tokens)
CallSearchMultiBreakdown(tokens) ==
    /\ last' = [op |-> "search_multi_breakdown", tokens |-> tokens,
                res |-> SearchMultiBreakdown(tokens)]
    /\ UNCHANGED <<serverVars, clientVars, hist, conc, vault, disk>>

NextBreakdown ==
    \/ \E docs \in OneDocBatches : \E ivs \in [1..Len(docs) -> IVs] : UploadDocuments(docs, ivs)
    \/ \E index \in IndexBatches : UploadIndex(index)
    \/ \E d \in DocIds : DeleteDocument(d)
    \/ \E tokens \in TokenLists : CallSearchMultiBreakdown(tokens)

SpecBreakdown == Init /\ [][NextBreakdown]_vars

\* the doc_ids the index holds under a token byte-equal to the given one
DocIdsOfToken(token) == {p[2] : p \in {x \in IndexPairs : TokenMatches(token, FromHex(x[1]))}}

\* C31: search_multi_breakdown(tokens) returns a list as long as tokens in
\* which result[i] is the duplicate-free list of exactly the doc_ids stored
\* under a token equal to tokens[i], also when a token occurs at more than one
\* position.
C31_BreakdownPerToken ==
    last.op = "search_multi_breakdown" =>
        /\ Len(last.res) = Len(last.tokens)
        /\ \A i \in 1..Len(last.tokens) :
              /\ NoDup(last.res[i])
              /\ Range(last.res[i]) = DocIdsOfToken(last.tokens[i])

(***************************************************************************)
(* What each server call leaves alone.                                     *)
(***************************************************************************)
\* len(key_hex): the hex digits of a SHA-256 digest
HEX_LEN == 64

\* len(doc_id) in bytes: the doc_ids of the pool have two characters
DocIdLen(doc_id) == 2

RECURSIVE SumLen(_)
SumLen(doc_ids) == IF doc_ids = <<>> THEN 0 ELSE DocIdLen(Head(doc_ids)) + SumLen(Tail(doc_ids))

\* JsonIndexBackend.get_index_bytes_per_doc: the share of one entry that goes
\* to each of its doc_ids, and the dict summed over the entries
JsonPerDoc(entry) == (HEX_LEN + SumLen(entry.v) + 2 * Len(entry.v)) \div Len(entry.v)

RECURSIVE JsonSumShares(_, _)
JsonSumShares(doc_ids, per_doc) ==
    IF doc_ids = <<>> THEN 0
    ELSE per_doc + JsonSumShares(Tail(doc_ids), per_doc)

RECURSIVE JsonBytesOf(_, _)
JsonBytesOf(index, doc_id) ==
    IF index = <<>> THEN 0
    ELSE (IF Head(index).v = <<>> THEN 0
          ELSE JsonSumShares(SelectSeq(Head(index).v, LAMBDA d : d = doc_id),
                             JsonPerDoc(Head(index))))
         + JsonBytesOf(Tail(index), doc_id)

JsonGetIndexBytesPerDoc(index) ==
    [d \in UNION {Range(index[i].v) : i \in 1..Len(index)} |-> JsonBytesOf(index, d)]

\* SqliteIndexBackend.get_index_bytes_per_doc: SUM(LENGTH(key_hex) +
\* LENGTH(doc_id)) GROUP BY doc_id
SqlGetIndexBytesPerDoc(rows) ==
    [d \in {r.doc_id : r \in rows} |->
        Cardinality({r \in rows : r.doc_id = d}) * (HEX_LEN + DocIdLen(d))]

\* SSEServer.get_index_bytes_per_doc
GetIndexBytesPerDoc ==
    IF backendKind = "sqlite" THEN SqlGetIndexBytesPerDoc(sqlRows)
    ELSE JsonGetIndexBytesPerDoc(jsonIndex)

ReadFrame == UNCHANGED <<serverVars, clientVars, hist, conc, vault, disk>>

CallGetDocument(doc_id) ==
    /\ last' = [op |-> "get_document", doc_id |-> doc_id, res |-> GetDocument(doc_id)]
    /\ ReadFrame

CallListDocumentIds ==
    /\ last' = [op |-> "list_document_ids", res |-> ListDocumentIds]
    /\ ReadFrame

CallGetIndexBytesPerDoc ==
    /\ last' = [op |-> "get_index_bytes_per_doc", res |-> GetIndexBytesPerDoc]
    /\ ReadFrame

NextFrame ==
    \/ \E d \in DocIds, blob \in Blobs : UploadDocument(d, blob)
    \/ \E index \in IndexBatches : UploadIndex(index)
    \/ \E d \in DocIds : DeleteDocument(d)
    \/ \E tokens \in TokenLists, pad_to \in {0, 1} : CallSearchMulti(tokens, pad_to)
    \/ \E token \in Tokens, pad_to \in {0, 1} : CallSearch(token, pad_to)
    \/ \E tokens \in TokenLists : CallSearchMultiBreakdown(tokens)
    \/ \E d \in DocIds : CallGetDocument(d)
    \/ CallListDocumentIds
    \/ CallGetIndexBytesPerDoc

SpecFrame == Init /\ [][NextFrame]_vars

ReadOps == {"search", "search_multi", "search_multi_breakdown", "get_document",
            "list_document_ids", "get_index_bytes_per_doc"}

\* the (token_hex, doc_id) pairs the backend in use holds
HeldPairs == IF backendKind = "sqlite" THEN RowPairs(sqlRows) ELSE PairsOf(jsonIndex)

\* C32: index pairs change only by upload_index and by delete_document of
\* their own doc_id: the read calls leave documents and index unchanged,
\* upload_index and upload_document remove no index pair, and
\* delete_document(d) removes no pair of another doc_id.
C32_IndexFrame ==
    [][/\ last'.op \in ReadOps => UNCHANGED serverVars
       /\ last'.op = "upload_document" => UNCHANGED <<backendKind, jsonIndex, jsonFile, sqlRows>>
       /\ last'.op = "upload_index" => HeldPairs \subseteq HeldPairs'
       /\ last'.op = "delete_document" =>
             /\ HeldPairs' \subseteq HeldPairs
             /\ \A p \in HeldPairs : p[2] # last'.doc_id => p \in HeldPairs']_vars

\* a stored document was deleted and pairs of other doc_ids are still indexed
C32_Witness ==
    /\ last.op = "delete_document"
    /\ last.res
    /\ HeldPairs # {}
    /\ \A p \in HeldPairs : p[2] # last.doc_id

(***************************************************************************)
(* migrate_json_to_sqlite step by step, with the process stopped between   *)
(* two of its steps.  disk.proc is "mig_read" after index.json was read,   *)
(* "mig_db" after index.db was created, "mig_ins" after the INSERTs and     *)
(* "mig_commit" after the commit; sqlRows holds the committed rows.        *)
(***************************************************************************)
MigrateSteps == {"mig_read", "mig_db", "mig_ins", "mig_commit"}

\* both exists() tests pass and json.loads(json_path.read_text()) returns
MigrateRead ==
    /\ disk.proc \in {"idle", "stopped"}
    /\ disk.json = "ok"
    /\ ~disk.db
    /\ disk' = [disk EXCEPT !.proc = "mig_read"]
    /\ last' = [op |-> "migrate_read"]
    /\ UNCHANGED <<jsonIndex, jsonFile, sqlRows>>
    /\ DiskFrame

\* sqlite3.connect(str(db_path)) and the CREATE statements: index.db exists
MigrateConnect ==
    /\ disk.proc = "mig_read"
    /\ disk' = [disk EXCEPT !.proc = "mig_db", !.db = TRUE]
    /\ last' = [op |-> "migrate_connect"]
    /\ UNCHANGED <<jsonIndex, jsonFile, sqlRows>>
    /\ DiskFrame

\* the INSERT OR IGNORE statements, inside the connection's open transaction
MigrateInsert ==
    /\ disk.proc = "mig_db"
    /\ disk' = [disk EXCEPT !.proc = "mig_ins"]
    /\ last' = [op |-> "migrate_insert"]
    /\ UNCHANGED <<jsonIndex, jsonFile, sqlRows>>
    /\ DiskFrame

\* conn.commit(): the rows are in index.db
MigrateCommit ==
    /\ disk.proc = "mig_ins"
    /\ sqlRows' = SqlAddBatch(sqlRows, jsonFile)
    /\ disk' = [disk EXCEPT !.proc = "mig_commit"]
    /\ last' = [op |-> "migrate_commit"]
    /\ UNCHANGED <<jsonIndex, jsonFile>>
    /\ DiskFrame

\* json_path.rename(backup); return True
MigrateRename ==
    /\ disk.proc = "mig_commit"
    /\ disk' = [disk EXCEPT !.proc = "idle", !.json = "missing", !.bak = Some(jsonFile),
                             !.prev = [json |-> "missing", file |-> <<>>]]
    /\ jsonFile' = <<>>
    /\ last' = [op |-> "migrate", res |-> TRUE, json |-> disk.json, db |-> FALSE]
    /\ UNCHANGED <<jsonIndex, sqlRows>>
    /\ DiskFrame

\* the process stops between two steps of the migration; a transaction that
\* was not committed leaves no rows
Interrupt ==
    /\ disk.proc \in MigrateSteps
    /\ disk' = [disk EXCEPT !.proc = "stopped"]
    /\ last' = [op |-> "interrupt", at |-> disk.proc]
    /\ UNCHANGED <<jsonIndex, jsonFile, sqlRows>>
    /\ DiskFrame

\* get_sse_client_for_vault in a new process: migrate_json_to_sqlite, run to
\* its end, then SSEServer(storage_dir, use_sqlite_index=True)
GetSseClientForVault ==
    LET r == MigrateOutcome(disk, jsonFile)
    IN /\ disk.proc \in {"idle", "stopped"}
       /\ disk' = [r.disk EXCEPT !.db = TRUE, !.proc = "idle"]
       /\ jsonFile' = r.file
       /\ sqlRows' = (IF r.res THEN r.rows ELSE sqlRows)
       /\ last' = [op |-> "get_sse_client_for_vault", migrated |-> r.res]
       /\ UNCHANGED jsonIndex
       /\ DiskFrame

NextMigrate ==
    \/ \E key_hex \in HexKeys, doc_ids \in IdLists : JsonCallAdd(key_hex, doc_ids)
    \/ \E index \in IndexBatches : JsonCallAddBatch(index)
    \/ \E d \in DocIds : JsonCallRemoveDocId(d)
    \/ SaveOpen
    \/ SaveWrite
    \/ SaveClose
    \/ MigrateRead
    \/ MigrateConnect
    \/ MigrateInsert
    \/ MigrateCommit
    \/ MigrateRename
    \/ Interrupt
    \/ GetSseClientForVault

SpecMigrate == InitDisk /\ [][NextMigrate]_vars

\* the (token, doc_id) pairs of the original index.json: of the file while it
\* is there, of index.json.bak once it was renamed
OriginalPairs ==
    IF disk.json = "ok" THEN PairsOf(jsonFile)
    ELSE IF disk.bak # None THEN PairsOf(disk.bak.val)
    ELSE {}

\* C33: migrate_json_to_sqlite loses no index data even when it is interrupted
\* between two of its steps: after a restart and a new call, every (token,
\* doc_id) pair of the original index.json is in the SQLite index the server
\* opens.
C33_MigrationLosesNothing ==
    last.op = "get_sse_client_for_vault" => OriginalPairs \subseteq RowPairs(sqlRows)

(***************************************************************************)
(* Index MACs: sign and verify of one entry and of a block.  Tokens and    *)
(* doc_ids are strings, character by character; HMAC-SHA256 is collision-  *)
(* free and json.dumps is one-to-one on the sorted item list.              *)
(***************************************************************************)
MAC_SIZE == 32
INDEX_MAC_KEY_SIZE == 32

\* code point of a character of a token or doc_id
CodePoint(c) == IF c = "," THEN 44 ELSE IF c = "|" THEN 124 ELSE Ord(c)
StrLess(s, t) ==
    BytesLess([i \in 1..Len(s) |-> CodePoint(s[i])], [i \in 1..Len(t) |-> CodePoint(t[i])])

\* sorted(strings)
RECURSIVE InsertSorted(_, _)
InsertSorted(sorted, s) ==
    IF sorted = <<>> THEN <<s>>
    ELSE IF StrLess(s, Head(sorted)) THEN <<s>> \o sorted
    ELSE <<Head(sorted)>> \o InsertSorted(Tail(sorted), s)
RECURSIVE SortedStrings(_)
SortedStrings(l) ==
    IF l = <<>> THEN <<>> ELSE InsertSorted(SortedStrings(Tail(l)), Head(l))

\* sep.join(strings)
RECURSIVE Join(_, _)
Join(l, sep) ==
    IF l = <<>> THEN <<>>
    ELSE IF Len(l) = 1 THEN Head(l)
    ELSE Head(l) \o sep \o Join(Tail(l), sep)

\* sign_index_entry(trapdoor_hex, doc_ids, k_index_mac)
SignIndexEntry(trapdoor_hex, doc_ids, k) ==
    IF k.len # INDEX_MAC_KEY_SIZE THEN [ok |-> FALSE, raise |-> "ValueError"]
    ELSE [ok |-> TRUE,
          val |-> HMAC(k.name, trapdoor_hex \o <<"|">> \o Join(SortedStrings(doc_ids), <<",">>))]

\* len(mac): an HMAC-SHA256 digest has 32 bytes, other byte strings say theirs
MacLen(mac) == IF "len" \in DOMAIN mac THEN mac.len ELSE MAC_SIZE

\* verify_index_entry(trapdoor_hex, doc_ids, mac, k_index_mac)
VerifyIndexEntry(trapdoor_hex, doc_ids, mac, k) ==
    IF MacLen(mac) # MAC_SIZE \/ k.len # INDEX_MAC_KEY_SIZE THEN [ok |-> TRUE, val |-> FALSE]
    ELSE LET expected == SignIndexEntry(trapdoor_hex, doc_ids, k)
         IN IF expected.ok THEN [ok |-> TRUE, val |-> (mac = expected.val)] ELSE expected

\* sorted(entries.items()): the items by key
RECURSIVE InsertItem(_, _)
InsertItem(sorted, e) ==
    IF sorted = <<>> THEN <<e>>
    ELSE IF StrLess(e.k, Head(sorted).k) THEN <<e>> \o sorted
    ELSE <<Head(sorted)>> \o InsertItem(Tail(sorted), e)
RECURSIVE SortedItems(_)
SortedItems(entries) ==
    IF entries = <<>> THEN <<>> ELSE InsertItem(SortedItems(Tail(entries)), Head(entries))

\* _serialize_index_block(entries)
SerializeIndexBlock(entries) == [json |-> SortedItems(entries)]

\* sign_index_block(entries, k_index_mac)
SignIndexBlock(entries, k) ==
    IF k.len # INDEX_MAC_KEY_SIZE THEN [ok |-> FALSE, raise |-> "ValueError"]
    ELSE [ok |-> TRUE, val |-> HMAC(k.name, SerializeIndexBlock(entries))]

\* verify_index_block(entries, expected_mac, k_index_mac)
VerifyIndexBlock(entries, expected_mac, k) ==
    IF MacLen(expected_mac) # MAC_SIZE \/ k.len # INDEX_MAC_KEY_SIZE
    THEN [ok |-> TRUE, val |-> FALSE]
    ELSE LET computed == SignIndexBlock(entries, k)
         IN IF computed.ok THEN [ok |-> TRUE, val |-> (computed.val = expected_mac)]
            ELSE computed

\* the inputs: keys, hex tokens, doc_ids (one of them holds a comma), lists
MacKeys == {[name |-> "k1", len |-> 32], [name |-> "k2", len |-> 32], [name |-> "k16", len |-> 16]}
MacTokens == {<<"a", "b">>, <<"b", "a">>}
MacDocIds == {<<"a">>, <<"b">>, <<"a", ",", "b">>}
MacIdLists == {<<>>} \cup {<<d>> : d \in MacDocIds} \cup {<<d, e>> : d, e \in MacDocIds}
BlockIdLists == {<<>>, << <<"a">> >>, << <<"a">>, <<"b">> >>, << <<"b">>, <<"a">> >>}
MacBlocks ==
    {<<>>} \cup {<<[k |-> t, v |-> l]>> : t \in MacTokens, l \in BlockIdLists}
           \cup {<<[k |-> t, v |-> l], [k |-> u, v |-> m]>> :
                    <<t, u, l, m>> \in {x \in MacTokens \X MacTokens \X BlockIdLists \X BlockIdLists :
                                          x[1] # x[2]}}

\* the macs given to verify: the one signed, 32 zero bytes, one byte too few
MacsFor(signed) == {signed, [bytes |-> "zeros", len |-> 32], [bytes |-> "zeros", len |-> 31]}

\* the mapping a dict holds, whatever the order of its items
DictMap(entries) == {<<entries[i].k, entries[i].v>> : i \in 1..Len(entries)}

MacFrame == UNCHANGED <<serverVars, clientVars, hist, conc, vault, disk>>

CallSignIndexEntry(t, doc_ids, k) ==
    /\ last.op = "init"
    /\ last' = [op |-> "sign_index_entry", t |-> t, doc_ids |-> doc_ids, k |-> k,
                res |-> SignIndexEntry(t, doc_ids, k)]
    /\ MacFrame

CallVerifyIndexEntry(t, doc_ids, k) ==
    /\ last.op = "sign_index_entry"
    /\ last.res.ok
    /\ \E mac \in MacsFor(last.res.val) :
          last' = [op |-> "verify_index_entry", signed |-> [t |-> last.t, doc_ids |-> last.doc_ids, k |-> last.k],
                   t |-> t, doc_ids |-> doc_ids, k |-> k, own |-> (mac = last.res.val),
                   maclen |-> MacLen(mac), res |-> VerifyIndexEntry(t, doc_ids, mac, k)]
    /\ MacFrame

CallSignIndexBlock(entries, k) ==
    /\ last.op = "init"
    /\ last' = [op |-> "sign_index_block", entries |-> entries, k |-> k,
                res |-> SignIndexBlock(entries, k)]
    /\ MacFrame

CallVerifyIndexBlock(entries, k) ==
    /\ last.op = "sign_index_block"
    /\ last.res.ok
    /\ \E mac \in MacsFor(last.res.val) :
          last' = [op |-> "verify_index_block", signed |-> [entries |-> last.entries, k |-> last.k],
                   entries |-> entries, k |-> k, own |-> (mac = last.res.val),
                   maclen |-> MacLen(mac), res |-> VerifyIndexBlock(entries, mac, k)]
    /\ MacFrame

NextMac ==
    \/ \E t \in MacTokens, l \in MacIdLists, k \in MacKeys : CallSignIndexEntry(t, l, k)
    \/ \E t \in MacTokens, l \in MacIdLists, k \in MacKeys : CallVerifyIndexEntry(t, l, k)
    \/ \E e \in MacBlocks, k \in MacKeys : CallSignIndexBlock(e, k)
    \/ \E e \in MacBlocks, k \in MacKeys : CallVerifyIndexBlock(e, k)

SpecMac == Init /\ [][NextMac]_vars

\* C34: verify_index_entry(t, docs, mac, k) is True exactly when mac was made
\* by sign_index_entry under k for the same token and the same set of doc_ids,
\* whatever their order; verify_index_block(entries, mac, k) is True exactly
\* when entries equal the signed mapping; a mac or key of the wrong length
\* gives False, not an exception.
C34_MacVerifiesExactly ==
    /\ last.op = "verify_index_entry" =>
          /\ last.res.ok
          /\ last.res.val <=> /\ last.own
                              /\ last.k = last.signed.k
                              /\ last.t = last.signed.t
                              /\ Range(last.doc_ids) = Range(last.signed.doc_ids)
    /\ last.op = "verify_index_block" =>
          /\ last.res.ok
          /\ last.res.val <=> /\ last.own
                              /\ last.k = last.signed.k
                              /\ DictMap(last.entries) = DictMap(last.signed.entries)

(***************************************************************************)
(* The state of a VaultManager between calls.                              *)
(***************************************************************************)
\* C35: between calls of a VaultManager, also after a load_vault or
\* unlock_with_master_key that raised, the state is UNLOCKED exactly when a key
\* bundle is held and exactly when a K_master buffer is held, so is_unlocked()
\* is true exactly when get_state() is UNLOCKED.
C35_UnlockedKeysBufferCoincide ==
    \A m \in DOMAIN vault.mgr :
        LET mgr == vault.mgr[m]
        IN /\ (mgr.state = "UNLOCKED") <=> (mgr.keys # None)
           /\ (mgr.keys # None) <=> (mgr.k_master_buf # None)
           /\ IsUnlocked(mgr) <=> (mgr.state = "UNLOCKED")

\* a load_vault that raised on a manager that was UNLOCKED and still is, its
\* bundle and buffer held
C35_Witness ==
    /\ last.op = "load_vault"
    /\ Raised(last.res)
    /\ last.was = "UNLOCKED"
    /\ vault.mgr[last.m].state = "UNLOCKED"
    /\ vault.mgr[last.m].keys # None
    /\ vault.mgr[last.m].k_master_buf # None

\* C36: a load_vault call that raises leaves the VaultManager as it was before
\* the call: same state, key bundle, K_master buffer, salt (what get_salt()
\* returns) and last_activity.
C36_FailedLoadChangesNothing ==
    [][(last'.op = "load_vault" /\ Raised(last'.res)) =>
          vault'.mgr[last'.m] = vault.mgr[last'.m]]_vars

(***************************************************************************)
(* An upload of a batch, one server call at a time, with searches in       *)
(* between.  A search runs on the SSEServer of the uploading client, or on *)
(* the SSEServer another request opened on the same storage directory.     *)
(***************************************************************************)
\* no upload in progress, no batch sent, no second SSEServer opened
InitBatch ==
    /\ documents = EmptyFn
    /\ docFiles = EmptyFn
    /\ backendKind \in {"json", "sqlite"}
    /\ jsonIndex = <<>>
    /\ jsonFile = <<>>
    /\ sqlRows = {}
    /\ knownDocIds = {}
    /\ keywordCounter = EmptyFn
    /\ last = [op |-> "init"]
    /\ hist = InitHist
    /\ vault = NoVaults
    /\ disk = NoDisk
    /\ conc = [mode |-> "batch", call |-> None, batch |-> {}, own |-> None]

BatchFrame == UNCHANGED <<vault, disk>>

\* upload_documents(docs) or upload_documents_forward_secure(counter, docs) is
\* called, the doc_ids never used before
BeginUpload(kind, docs) ==
    /\ conc.call = None
    /\ BatchIds(docs) \cap hist.usedIds = {}
    /\ hist' = [hist EXCEPT !.usedIds = @ \cup BatchIds(docs)]
    /\ kind = "fwd" => \A w \in DOMAIN BuildFwdIndex(keywordCounter, docs).counter :
                          BuildFwdIndex(keywordCounter, docs).counter[w] <= MaxCtr
    /\ conc' = [conc EXCEPT !.call = [kind |-> kind, docs |-> docs, i |-> 0],
                            !.batch = BatchIds(docs)]
    /\ last' = [op |-> "begin_upload", kind |-> kind]
    /\ UNCHANGED <<serverVars, clientVars>>
    /\ BatchFrame

\* the loop body: encrypt_document and self._server.upload_document(doc_id, payload)
StepUploadDocument(iv) ==
    /\ conc.call # None
    /\ conc.call.i < Len(conc.call.docs)
    /\ LET doc == conc.call.docs[conc.call.i + 1]
           st == ServerUploadDocument(documents, docFiles, doc[1], EncryptDocument(doc[2], iv))
       IN /\ documents' = st.docs
          /\ docFiles' = st.files
          /\ knownDocIds' = IF conc.call.kind = "plain" THEN knownDocIds \cup {doc[1]}
                            ELSE knownDocIds
          /\ last' = [op |-> "upload_document", doc_id |-> doc[1]]
    /\ conc' = [conc EXCEPT !.call.i = @ + 1]
    /\ UNCHANGED <<backendKind, jsonIndex, jsonFile, sqlRows, keywordCounter, hist>>
    /\ BatchFrame

\* after the loop: the doc_id lists are deduplicated and self._server.upload_index(index)
StepUploadIndex ==
    /\ conc.call # None
    /\ conc.call.i = Len(conc.call.docs)
    /\ LET docs == conc.call.docs
           fwd == BuildFwdIndex(keywordCounter, docs)
           index == IF conc.call.kind = "plain" THEN BuildIndex(docs) ELSE fwd.index
       IN /\ BackendWrite(JsonAddBatch(jsonIndex, index), SqlAddBatch(sqlRows, index))
          /\ keywordCounter' = IF conc.call.kind = "plain" THEN keywordCounter ELSE fwd.counter
          /\ last' = [op |-> "upload_index", index |-> index, ids |-> BatchIds(docs),
                      stored |-> DOMAIN documents \cap DOMAIN docFiles]
    /\ conc' = [conc EXCEPT !.call = None]
    /\ UNCHANGED <<documents, docFiles, knownDocIds, hist>>
    /\ BatchFrame

\* delete_document(doc_id) between two uploads
DeleteStored(doc_id) ==
    /\ conc.call = None
    /\ doc_id \in DOMAIN documents
    /\ documents' = FnDel(documents, doc_id)
    /\ docFiles' = FnDel(docFiles, doc_id)
    /\ BackendWrite(JsonRemoveDocId(jsonIndex, doc_id), SqlRemoveDocId(sqlRows, doc_id))
    /\ last' = [op |-> "delete_document", doc_id |-> doc_id, res |-> TRUE, stored |-> TRUE]
    /\ conc' = [conc EXCEPT !.batch = {}]
    /\ UNCHANGED <<clientVars, hist>>
    /\ BatchFrame

\* get_sse_client_for_vault for another request: SSEServer.__init__ opens the
\* index backend (the JSON backend reads index.json) and loads the document files
OpenOwnServer ==
    /\ conc' = [conc EXCEPT !.own = [mem |-> docFiles, idx |-> jsonFile]]
    /\ last' = [op |-> "open"]
    /\ UNCHANGED <<serverVars, clientVars, hist>>
    /\ BatchFrame

\* the entries and the documents of the SSEServer a search runs on
EntriesOn(own) ==
    IF own /\ backendKind = "json" THEN JsonIterEntries(conc.own.idx) ELSE IterEntries

DocumentsOn(own) == IF own THEN conc.own.mem ELSE documents

\* search(token) and then get_document for every doc_id returned
SearchThenGet(token, own) ==
    /\ own => conc.own # None
    /\ LET res == Dedupe(SearchScan(EntriesOn(own), <<token>>, <<>>))
       IN last' = [op |-> "search", own |-> own, res |-> res,
                   missing |-> {d \in Range(res) : FnGet(DocumentsOn(own), d, None) = None}]
    /\ UNCHANGED <<serverVars, clientVars, conc, hist>>
    /\ BatchFrame

\* the tokens of the keys the index holds
StoredTokens == {FromHex(p[1]) : p \in HeldPairs}

NextBatch ==
    \/ \E kind \in {"plain", "fwd"}, docs \in DocBatches : BeginUpload(kind, docs)
    \/ \E iv \in IVs : StepUploadDocument(iv)
    \/ StepUploadIndex
    \/ \E d \in DocIds : DeleteStored(d)
    \/ OpenOwnServer
    \/ \E token \in StoredTokens, own \in BOOLEAN : SearchThenGet(token, own)

SpecBatch == InitBatch /\ [][NextBatch]_vars

\* the blobs of the batch are stored when its index is sent, with duplicate-free lists
BlobsBeforeIndex ==
    last.op = "upload_index" =>
        /\ last.ids \subseteq last.stored
        /\ \A i \in 1..Len(last.index) : NoDup(last.index[i].v)

\* a search on the uploading client's own SSEServer returns no doc_id without a blob
SameServerHitsHaveBlobs == (last.op = "search" /\ ~last.own) => last.missing = {}

\* C37: every blob of a batch is stored before the batch's index is sent, the
\* doc_id lists sent are duplicate-free, and no search returns a doc_id of the
\* batch for which get_document has no blob
C37_NoHitWithoutBlob ==
    /\ BlobsBeforeIndex
    /\ last.op = "search" => last.missing \cap conc.batch = {}

(***************************************************************************)
(* A storage directory opened again: the SSEServer that made the calls is  *)
(* dropped and a new one is built on the same directory, with the same     *)
(* backend kind.                                                           *)
(***************************************************************************)
\* _load_documents: every file of documents/ under its name, with its bytes
LoadDocumentFiles(files) == [d \in DOMAIN files |-> files[d]]

\* what iter_entries() of the newly opened backend yields: the JSON backend
\* has read index.json, the SQLite backend selects the committed rows
EntriesAfterOpen ==
    IF backendKind = "sqlite" THEN SqlIterEntries(sqlRows) ELSE JsonIterEntries(jsonFile)

\* SSEServer(storage_dir, use_sqlite_index) on the directory in use
ReopenServer ==
    /\ documents' = LoadDocumentFiles(docFiles)
    /\ jsonIndex' = jsonFile
    /\ last' = [op |-> "open_server",
                old |-> [docs |-> documents, pairs |-> HeldPairs],
                new |-> [docs |-> LoadDocumentFiles(docFiles),
                         pairs |-> PairsOf(EntriesAfterOpen)]]
    /\ UNCHANGED <<docFiles, backendKind, jsonFile, sqlRows, clientVars, hist, conc,
                   vault, disk>>

NextReopen ==
    \/ \E d \in DocIds, blob \in Blobs : UploadDocument(d, blob)
    \/ \E index \in IndexBatches : UploadIndex(index)
    \/ \E d \in DocIds : DeleteDocument(d)
    \/ ReopenServer

SpecReopen == Init /\ [][NextReopen]_vars

\* C38: after any sequence of completed upload_document, upload_index and
\* delete_document calls, a new SSEServer opened on the same directory with the
\* same backend kind has the same doc_ids, the same blob for each doc_id and
\* the same index pairs as the instance that made the calls.
C38_ReopenedServerAgrees ==
    last.op = "open_server" =>
        /\ DOMAIN last.new.docs = DOMAIN last.old.docs
        /\ \A d \in DOMAIN last.old.docs : last.new.docs[d] = last.old.docs[d]
        /\ last.new.pairs = last.old.pairs

\* a directory with a stored document and index pairs, some of a doc_id that is
\* not stored, was opened again
C38_Witness ==
    /\ last.op = "open_server"
    /\ DOMAIN last.old.docs # {}
    /\ \E p \in last.old.pairs : p[2] \in DOMAIN last.old.docs
    /\ \E p \in last.old.pairs : p[2] \notin DOMAIN last.old.docs

(***************************************************************************)
(* The registry of vault_service: _vaults maps (user_id, vault_id) to the  *)
(* VaultManager of the vault.  vault.mgr holds the VaultManager objects    *)
(* under their identity, vault.reg is _vaults, and vault.got records the   *)
(* object every get_vault(user_id, vault_id) has returned.                 *)
(***************************************************************************)
\* the (user_id, vault_id) pairs of the calls
VaultPairs == {<<"u1", "v1">>, <<"u2", "v1">>, <<"u1", "v2">>}

\* the identities of the VaultManager objects, in the order of construction
ManagerIds == <<"m1", "m2", "m3">>

\* _default_inactivity_timeout, in seconds
DEFAULT_INACTIVITY_TIMEOUT == 300

\* the inactivity_timeout arguments of get_vault
TimeoutArgs == {None, Some(1)}

InitRegistry ==
    /\ documents = EmptyFn
    /\ docFiles = EmptyFn
    /\ backendKind = "sqlite"
    /\ jsonIndex = <<>>
    /\ jsonFile = <<>>
    /\ sqlRows = {}
    /\ knownDocIds = {}
    /\ keywordCounter = EmptyFn
    /\ last = [op |-> "init"]
    /\ hist = InitHist
    /\ conc = NoThreads
    /\ disk = NoDisk
    /\ vault = [mgr |-> EmptyFn, now |-> 0, nsalts |-> 0, created |-> {}, client |-> None,
                reg |-> EmptyFn, got |-> EmptyFn]

\* mutant: the registry is keyed by the vault_id alone
RegistryKeyVaultOnly(user_id, vault_id) == <<vault_id>>

\* key = (user_id, vault_id)
RegistryKey(user_id, vault_id) == <<user_id, vault_id>>

\* get_vault(user_id, vault_id, inactivity_timeout)
GetVault(user_id, vault_id, inactivity_timeout) ==
    LET key == RegistryKey(user_id, vault_id)
        timeout == IF inactivity_timeout # None THEN inactivity_timeout
                   ELSE Some(DEFAULT_INACTIVITY_TIMEOUT)
        new == ManagerIds[Cardinality(DOMAIN vault.mgr) + 1]
        m == IF key \in DOMAIN vault.reg THEN vault.reg[key] ELSE new
    IN /\ vault' = [vault EXCEPT
             !.mgr = IF key \in DOMAIN vault.reg THEN @ ELSE FnPut(@, new, NewManager(timeout)),
             !.reg = FnPut(@, key, m),
             !.got = FnPut(@, <<user_id, vault_id>>, m)]
       /\ last' = [op |-> "get_vault", m |-> m, user_id |-> user_id, vault_id |-> vault_id]
       /\ VaultFrame

\* check_inactivity_and_lock(user_id, vault_id)
RegCheckInactivityAndLock(user_id, vault_id) ==
    LET key == RegistryKey(user_id, vault_id)
    IN IF key \notin DOMAIN vault.reg
       THEN /\ last' = [op |-> "check_inactivity_and_lock", m |-> "none", res |-> FALSE]
            /\ UNCHANGED vault
            /\ VaultFrame
       ELSE VmCheckInactivityAndLock(vault.reg[key])

\* lock_vault(user_id, vault_id)
RegLockVault(user_id, vault_id) ==
    LET key == RegistryKey(user_id, vault_id)
    IN IF key \notin DOMAIN vault.reg
       THEN /\ last' = [op |-> "lock_vault", m |-> "none", res |-> None]
            /\ UNCHANGED vault
            /\ VaultFrame
       ELSE VmLockVault(vault.reg[key])

NextRegistry ==
    \/ Tick
    \/ \E p \in VaultPairs, t \in TimeoutArgs : GetVault(p[1], p[2], t)
    \/ \E p \in VaultPairs : RegCheckInactivityAndLock(p[1], p[2])
    \/ \E p \in VaultPairs : RegLockVault(p[1], p[2])
    \/ \E m \in DOMAIN vault.mgr : VmCreateVault(m, "password123", TRUE)
    \/ \E m \in DOMAIN vault.mgr : VmGetKeys(m)

SpecRegistry == InitRegistry /\ [][NextRegistry]_vars

\* C39: get_vault returns the same VaultManager for the same (user_id,
\* vault_id) and different managers for different pairs, and a call on one
\* vault (unlock, lock, inactivity lock) leaves the state, keys and
\* last_activity of every other vault's manager as they were.
C39_VaultsIsolated ==
    [][/\ \A p \in DOMAIN vault.got : p \in DOMAIN vault'.got /\ vault'.got[p] = vault.got[p]
       /\ \A p, q \in DOMAIN vault'.got : p # q => vault'.got[p] # vault'.got[q]
       /\ \A o \in DOMAIN vault.mgr :
             (last'.op = "tick" \/ o # last'.m) =>
                /\ o \in DOMAIN vault'.mgr
                /\ vault'.mgr[o].state = vault.mgr[o].state
                /\ vault'.mgr[o].keys = vault.mgr[o].keys
                /\ vault'.mgr[o].last_activity = vault.mgr[o].last_activity]_vars

\* one vault was locked for inactivity while another user's vault of the same
\* vault_id, unlocked later, stays unlocked
C39_Witness ==
    /\ last.op = "check_inactivity_and_lock"
    /\ last.res = TRUE
    /\ \E p, q \in DOMAIN vault.got :
          /\ p[2] = q[2]
          /\ vault.got[p] = last.m
          /\ vault.mgr[vault.got[q]].state = "UNLOCKED"
          /\ vault.mgr[vault.got[q]].last_activity > 0

====
